---- MODULE Spec2Model ----
(***************************************************************************)
(* Model of the Podcast-creator repository:                                *)
(*   - the Graph API paginators of "Teams extractor"                       *)
(*     (get_channel_messages, get_user_chat_messages,                      *)
(*      get_user_chat_messages_direct),                                    *)
(*   - parse_channel_url of "Teams extractor",                             *)
(*   - parse_script, generate_audio_for_segments and                       *)
(*     combine_and_export_audio of synthetic_radio_host.py.                *)
(* Each component has its own specification (PagSpec, ParseSpec, GenSpec,  *)
(* ExportSpec, UrlSpec) over the shared variables; the variables of the    *)
(* other components keep their initial values.                             *)
(***************************************************************************)
EXTENDS Integers, Sequences, FiniteSets, TLC

VARIABLES
    \* ---- paginator ----
    variant,        \* which of the three paginator functions runs
    url,            \* local `url`
    params,         \* local `params` (TRUE: the $top/$orderby dict, FALSE: None/not passed)
    all_messages,   \* local `all_messages`
    reqs,           \* history: the requests.get calls made, <<url, params>> each
    resps,          \* history: the HTTP responses received
    failed,         \* a RequestException was raised inside the try block
    ppc,            \* "loop" | "returned" | "raised"
    presult,        \* the value handed to the caller on a normal return
    \* ---- parse_script ----
    script,         \* the input string, a sequence of characters/tokens
    segments,       \* the value parse_script returned
    rk,             \* index of the segment that was re-joined and re-segmented
    reseg,          \* parse_script of the re-joined segment
    spc,            \* "init" | "parsed" | "reseg"
    \* ---- generate_audio_for_segments ----
    gsegments,      \* argument `segments`
    use_elevenlabs, \* argument `use_elevenlabs`
    has_key,        \* the provider's API key is configured (ElevenLabs key / OpenAI client)
    gi,             \* loop index i (0-based, the next segment to process)
    audio_segments, \* local `audio_segments`
    failed_segments,\* local `failed_segments`
    calls,          \* history: the synthesis calls made, <<index, provider, voice, text>>
    outcomes,       \* history: what happened to each segment
    gpc,            \* "loop" | "returned" | "raised"
    gresult,        \* the list handed to the caller on a normal return
    gerror,         \* the exception raised to the caller: "none" | "all_failed"
    \* ---- combine_and_export_audio ----
    eclips,         \* argument `audio_segments`: the encoded clips
    writable,       \* the output location can be opened for writing
    ei,             \* number of clips already added to the track
    combined,       \* local `combined_audio_seg`: the items of the track
    efile,          \* the file at output_filename: <<kind, normalized, content>>
    efail_at,       \* 0, or the step of the normal path that raised
    ereported,      \* the duration printed, in tenths of a second (-1: none)
    epc,            \* "start" | "loop" | "fallback" | "returned" | "raised"
    eresult,        \* the value returned
    eerror,         \* the exception raised to the caller
    \* ---- parse_channel_url ----
    ulink,          \* the deep link given: <<path segments, query pairs, fragment?>>
    purl,           \* argument `url`, the link's text as a sequence of tokens
    uresult,        \* the dict returned: <<groupId, tenantId, channelId>>
    upc,             \* "start" | "returned" | "raised"
    \* ---- text_to_speech_elevenlabs ----
    tkey,           \* the ElevenLabs API key is configured
    tresp,          \* what requests.post gives: <<"response", status>> or <<"neterr", 0>>
    tbody,          \* response.content
    tsdk,           \* what the SDK fallback would do: "none", "bytes", "raise"
    tpc,            \* "start", "posted", "fallback", "returned", "raised"
    tres,           \* the bytes returned
    terr,            \* the error reported: "none", "ValueError", "api_error", "network"
    \* ---- create_synthetic_radio_host / app.main ----
    wcaller,        \* which pipeline runs: "create" (create_synthetic_radio_host), "main" (app.main)
    wwiki,          \* what Wikipedia has for the title: "text", "missing", "error"
    warticle,       \* `article_text`: "unfetched", "text", "notfound", "empty", "None"
    wgroq,          \* the Groq key is configured
    wllm,           \* what the LLM answers: a script, or LlmError
    wvoices,        \* main: both voice ids are set
    wscript,        \* `script` (Null: None)
    wllm_calls,     \* history: the article texts sent to the LLM
    wsegments,      \* `segments`
    wpc,            \* "start", "fetched", "scripted", "parsed", "synth", "export", "returned", "raised"
    wresult,        \* the value returned
    werror,          \* the exception raised to the caller
    \* ---- generate_audio_for_segments: console ----
    greport,         \* the summary warning printed: <<>> (none) or <<failed, succeeded>>
    \* ---- get_groq_client / get_openai_client ----
    groq_client,    \* global `groq_client` (NoClient: None)
    openai_client,  \* global `openai_client` (NoClient: None)
    groq_key,       \* GROQ_API_KEY as the environment has it now ("None": not set)
    openai_key,     \* OPENAI_API_KEY as the environment has it now
    chist,           \* history: the getter calls, <<which, key, constructor outcome, returned>>
    \* ---- get_token.authenticate ----
    ainterval,      \* device_info['interval'], seconds
    aexpires,       \* device_info['expires_in'], seconds
    anow,           \* time.time() - start_time, seconds
    apolls,         \* history: the polls, <<elapsed at the loop test, elapsed at the request, response>>
    apc,            \* "loop", "returned"
    aresult,         \* the value returned
    \* ---- extract_messages_from_channel_url ----
    xinfo,          \* url_info
    xgroup,         \* what GET /groups/{groupId} answered
    xteam,          \* team_id
    xreqs,          \* the HTTP requests sent, in order
    xpc,            \* "idle", "start", "lookup", "messages", "returned", "raised"
    xresult,        \* the messages returned
    xerror          \* the exception raised

pagVars   == <<variant, url, params, all_messages, reqs, resps, failed, ppc, presult>>
parseVars == <<script, segments, rk, reseg, spc>>
genVars   == <<gsegments, use_elevenlabs, has_key, gi, audio_segments, failed_segments,
               calls, outcomes, gpc, gresult, gerror>>
expVars   == <<eclips, writable, ei, combined, efile, efail_at, ereported, epc,
               eresult, eerror>>
urlVars   == <<ulink, purl, uresult, upc>>
ttsVars   == <<tkey, tresp, tbody, tsdk, tpc, tres, terr>>
pipeVars  == <<wcaller, wwiki, warticle, wgroq, wllm, wvoices, wscript, wllm_calls, wsegments, wpc, wresult, werror>>
repVars   == <<greport>>
clientVars == <<groq_client, openai_client, groq_key, openai_key, chist>>
authVars  == <<ainterval, aexpires, anow, apolls, apc, aresult>>
extractVars == <<xinfo, xgroup, xteam, xreqs, xpc, xresult, xerror>>
vars      == <<pagVars, parseVars, genVars, expVars, urlVars, ttsVars, pipeVars, repVars, clientVars, authVars, extractVars>>

(***************************************************************************)
(* Bounds                                                                  *)
(***************************************************************************)
MaxPages == 3
MaxBatch == 2
MaxLen == 6
MaxSegs == 5

(***************************************************************************)
(* Generic sequence helpers                                                *)
(***************************************************************************)
Last(s) == s[Len(s)]

RECURSIVE Flatten(_)
Flatten(ss) == IF ss = <<>> THEN <<>> ELSE Head(ss) \o Flatten(Tail(ss))

RECURSIVE SeqsUpTo(_, _)
SeqsUpTo(S, n) ==
    IF n = 0 THEN {<<>>}
    ELSE LET shorter == SeqsUpTo(S, n - 1)
         IN  shorter \cup {Append(s, x) : s \in shorter, x \in S}

(***************************************************************************)
(* PAGINATOR                                                               *)
(***************************************************************************)
Variants == {"channel", "user", "direct"}

InitialUrl == "u0"
NextUrls == {"u1", "u2"}
\* What data.get('@odata.nextLink') can be: the key is absent, JSON null, the
\* empty string, a non-empty string that is no URL, or a URL.
NextLinks == {"absent", "null", "empty", "bad"} \cup NextUrls

\* A page's 'value' array: records 1..n in server order, n <= MaxBatch.
Batches == {[i \in 1..n |-> i] : n \in 0..MaxBatch}

OkResponses ==
    [ok : {TRUE}, hasValue : BOOLEAN, value : Batches, next : NextLinks]
FailResponse == [ok |-> FALSE, hasValue |-> FALSE, value |-> <<>>, next |-> "absent"]

\* Python truthiness of `url` in `while url:`; absent and null both read as None.
TruthyNotNone(u) == u \notin {"absent", "null"}
Truthy(u) == u \notin {"absent", "null", "empty"}

\* requests.get(url) with a string that is no URL raises MissingSchema, a
\* RequestException, before anything is sent.
IsUrl(u) == u \in NextUrls \cup {InitialUrl}

\* messages = data.get('value', []); all_messages.extend(messages)
ExtendPrepend(acc, resp) == (IF resp.hasValue THEN resp.value ELSE <<>>) \o acc
Extend(acc, resp) == acc \o (IF resp.hasValue THEN resp.value ELSE <<>>)

\* url = data.get('@odata.nextLink')
NextUrlDefault(u, resp) == IF resp.next = "absent" THEN u ELSE resp.next
NextUrl(u, resp) == resp.next

\* get_channel_messages: params = None after the first response; the other two
\* functions never pass params.
NextParamsKeep(p) == p
NextParams(p) == FALSE

InitialParams(v) == v = "channel"

\* The except clause: get_user_chat_messages_direct re-raises, the two methods
\* of TeamsMessageExtractor print the error and fall through to the return.
ReraisesNever(v) == FALSE
Reraises(v) == v = "direct"

PagInit ==
    /\ variant \in Variants
    /\ url = InitialUrl
    /\ params = InitialParams(variant)
    /\ all_messages = <<>>
    /\ reqs = <<>>
    /\ resps = <<>>
    /\ failed = FALSE
    /\ ppc = "loop"
    /\ presult = <<>>
    \* the other components are idle
    /\ script = <<>> /\ segments = <<>> /\ rk = 0 /\ reseg = <<>> /\ spc = "idle"
    /\ gsegments = <<>> /\ use_elevenlabs = TRUE /\ has_key = TRUE /\ gi = 0
    /\ audio_segments = <<>> /\ failed_segments = <<>>
    /\ calls = <<>> /\ outcomes = <<>> /\ gpc = "idle" /\ gresult = <<>>
    /\ gerror = "none"
    /\ eclips = <<>> /\ writable = TRUE /\ ei = 0 /\ combined = <<>>
    /\ efile = <<"absent", FALSE, <<>>>> /\ efail_at = 0 /\ ereported = -1
    /\ epc = "idle" /\ eresult = "None" /\ eerror = "none"
    /\ ulink = <<>> /\ purl = <<>> /\ uresult = <<>> /\ upc = "idle"
    /\ tkey = TRUE /\ tresp = <<"response", 200>> /\ tbody = <<>> /\ tsdk = "none" /\ tpc = "idle" /\ tres = <<>> /\ terr = "none"
    /\ wcaller = "create" /\ wwiki = "text" /\ warticle = "unfetched" /\ wgroq = TRUE /\ wllm = <<>> /\ wvoices = TRUE /\ wscript = <<>> /\ wllm_calls = <<>> /\ wsegments = <<>> /\ wpc = "idle" /\ wresult = "None" /\ werror = "none"
    /\ greport = <<>>
    /\ groq_client = <<>> /\ openai_client = <<>> /\ groq_key = "None" /\ openai_key = "None" /\ chist = <<>>
    /\ ainterval = 1 /\ aexpires = 1 /\ anow = 0 /\ apolls = <<>> /\ apc = "idle" /\ aresult = "None"
    /\ xinfo = <<>> /\ xgroup = "unasked" /\ xteam = "None" /\ xreqs = <<>> /\ xpc = "idle" /\ xresult = <<>> /\ xerror = "none"

\* One iteration of the while loop whose request succeeds.
FetchPage(r) ==
    /\ ppc = "loop"
    /\ Truthy(url)
    /\ IsUrl(url)
    /\ Len(reqs) < MaxPages
    /\ r \in OkResponses
    /\ (Truthy(r.next) => Len(reqs) + 1 < MaxPages)
    /\ reqs' = Append(reqs, <<url, params>>)
    /\ resps' = Append(resps, r)
    /\ all_messages' = Extend(all_messages, r)
    /\ url' = NextUrl(url, r)
    /\ params' = NextParams(params)
    /\ UNCHANGED <<variant, failed, ppc, presult>>
    /\ UNCHANGED <<parseVars, genVars, expVars, urlVars, ttsVars, pipeVars, repVars, clientVars, authVars, extractVars>>

\* One iteration whose request raises a RequestException: a non-2xx status
\* (raise_for_status), a network failure, or a url that is no URL.
FetchFails ==
    /\ ppc = "loop"
    /\ Truthy(url)
    /\ Len(reqs) < MaxPages
    /\ reqs' = Append(reqs, <<url, params>>)
    /\ resps' = IF IsUrl(url) THEN Append(resps, FailResponse) ELSE resps
    /\ failed' = TRUE
    /\ IF Reraises(variant)
       THEN /\ ppc' = "raised"
            /\ presult' = presult
       ELSE /\ ppc' = "returned"
            /\ presult' = all_messages
    /\ UNCHANGED <<variant, url, params, all_messages>>
    /\ UNCHANGED <<parseVars, genVars, expVars, urlVars, ttsVars, pipeVars, repVars, clientVars, authVars, extractVars>>

\* `while url:` is false: return all_messages.
LoopExit ==
    /\ ppc = "loop"
    /\ ~Truthy(url)
    /\ ppc' = "returned"
    /\ presult' = all_messages
    /\ UNCHANGED <<variant, url, params, all_messages, reqs, resps, failed>>
    /\ UNCHANGED <<parseVars, genVars, expVars, urlVars, ttsVars, pipeVars, repVars, clientVars, authVars, extractVars>>

PagNext ==
    \/ \E r \in OkResponses : FetchPage(r)
    \/ FetchFails
    \/ LoopExit

PagSpec ==
    /\ PagInit
    /\ [][PagNext]_vars

\* The paginator is a sequential loop: it takes its next step as long as it has
\* one, and the server answers every request it receives.
PagFairSpec ==
    /\ PagInit
    /\ [][PagNext]_vars
    /\ WF_vars(PagNext)

(***************************************************************************)
(* Paginator claims                                                        *)
(***************************************************************************)
Done == ppc \in {"returned", "raised"}

\* A response whose continuation field is well formed: absent, null or a URL.
WellFormed(r) == r.next \in {"absent", "null"} \cup NextUrls

ConcatValues(rs) ==
    Flatten([i \in 1..Len(rs) |-> IF rs[i].ok /\ rs[i].hasValue THEN rs[i].value ELSE <<>>])

\* C1: when every page request succeeded with a well-formed response, the
\* paginator returns exactly the in-order concatenation of the 'value' arrays
\* of the pages it visited (a page without 'value' contributes nothing); the
\* first request goes to the initial URL, every later request to the nextLink
\* of the previous response, and the last page visited is the first one whose
\* nextLink is absent (absent or null: both read as None).
C1_Concatenation ==
    /\ (~failed /\ \A i \in 1..Len(resps) : WellFormed(resps[i])) =>
          /\ all_messages = ConcatValues(resps)
          /\ Len(reqs) = Len(resps)
          /\ \A i \in 1..Len(reqs) :
                reqs[i][1] = (IF i = 1 THEN InitialUrl ELSE resps[i - 1].next)
          /\ \A i \in 1..(Len(resps) - 1) : resps[i].next \in NextUrls
    /\ (ppc = "returned" /\ ~failed /\ \A i \in 1..Len(resps) : WellFormed(resps[i])) =>
          /\ presult = ConcatValues(resps)
          /\ Len(resps) >= 1
          /\ Last(resps).next \in {"absent", "null"}

C1_Witness ==
    /\ ppc = "returned" /\ ~failed
    /\ Len(resps) = 3
    /\ \A i \in 1..3 : WellFormed(resps[i])
    /\ resps[1].hasValue /\ resps[1].value = <<1, 2>>
    /\ ~resps[2].hasValue
    /\ resps[3].hasValue /\ resps[3].value = <<1>>
    /\ presult = <<1, 2, 1>>

\* C2 as stated: if any page request fails (first page or later), the
\* paginator aborts and the error propagates to the caller; records accumulated
\* from earlier pages are never handed back as a normal return value.
C2_NoPartialResult ==
    (failed /\ Done) => ppc = "raised"

\* C2 amended: a failed page request ends the pagination at once (no request
\* follows it); get_user_chat_messages_direct then propagates the error and
\* hands nothing back, while get_channel_messages and get_user_chat_messages
\* return normally the records of the pages fetched before the failure.
C2_FailureHandling ==
    failed =>
        /\ Done
        /\ Len(resps) \in {Len(reqs) - 1, Len(reqs)}
        /\ \A i \in 1..Len(resps) : resps[i].ok = (i < Len(reqs))
        /\ variant = "direct" => (ppc = "raised" /\ presult = <<>>)
        /\ variant # "direct" => (ppc = "returned" /\ presult = ConcatValues(resps))

C2_Witness ==
    /\ failed
    /\ variant = "direct"
    /\ ppc = "raised"
    /\ Len(reqs) = 2 /\ Len(resps) = 2
    /\ resps[1].ok /\ resps[1].value = <<1, 2>> /\ resps[1].hasValue
    /\ ~resps[2].ok
    /\ all_messages = <<1, 2>>
    /\ presult = <<>>

\* C3: in get_channel_messages the query parameters are sent with the first
\* request only; every later request carries no query parameters.
C3_ParamsFirstOnly ==
    variant = "channel" =>
        \A i \in 1..Len(reqs) : reqs[i][2] = (i = 1)

C3_Witness ==
    /\ variant = "channel"
    /\ Len(reqs) = 3
    /\ reqs[1][2] /\ ~reqs[2][2] /\ ~reqs[3][2]

\* C4: after a response whose continuation field is absent or null the
\* paginator issues no further request and returns the accumulator; it never
\* leaves the loop on the success path while the last response carried a
\* continuation URL; and, the server sending such a last page after finitely
\* many pages, it terminates.
C4_StopsAtLastPage ==
    /\ [][ /\ (ppc = "loop" /\ resps # <<>> /\ Last(resps).ok
                /\ Last(resps).next \in {"absent", "null"}) =>
               (ppc' = "returned" /\ presult' = all_messages /\ reqs' = reqs /\ ~failed')
           /\ (ppc = "loop" /\ ppc' = "returned" /\ ~failed') =>
               (resps # <<>> /\ Last(resps).ok /\ Last(resps).next \notin NextUrls
                /\ presult' = all_messages)
         ]_vars
    /\ <>Done

C4_Witness ==
    /\ ppc = "returned" /\ ~failed
    /\ Len(resps) = 2 /\ Len(reqs) = 2
    /\ resps[1].next \in NextUrls
    /\ resps[2].next = "null"

\* C5 as stated: after a page with a 'value' field and a malformed continuation
\* field (present, not null, no usable URL) the paginator stops without another
\* request and without error, returning the records accumulated so far.
Malformed(r) == r.ok /\ r.hasValue /\ r.next \in {"empty", "bad"}

C5_MalformedStops ==
    [][ (ppc = "loop" /\ resps # <<>> /\ Malformed(Last(resps))) =>
          (ppc' = "returned" /\ ~failed' /\ reqs' = reqs /\ presult' = all_messages) ]_vars

\* C5 amended: a continuation field that is present but empty (the empty
\* string) ends the pagination without another request and without error, and
\* the records accumulated so far, that page's included, are returned.
C5_EmptyStops ==
    [][ (ppc = "loop" /\ resps # <<>> /\ Last(resps).ok /\ Last(resps).hasValue
          /\ Last(resps).next = "empty") =>
          (ppc' = "returned" /\ ~failed' /\ reqs' = reqs
           /\ presult' = ConcatValues(resps)) ]_vars

C5_Witness ==
    /\ ppc = "returned" /\ ~failed
    /\ Len(resps) = 2
    /\ Last(resps).hasValue /\ Last(resps).value = <<1, 2>>
    /\ Last(resps).next = "empty"
    /\ presult = resps[1].value \o <<1, 2>>
    /\ resps[1].hasValue /\ resps[1].value # <<>>

(***************************************************************************)
(* STRINGS                                                                 *)
(* A string is a sequence of characters.  The nine characters of a speaker *)
(* label, "Person A:" or "Person B:", are written as one element; SP is a  *)
(* whitespace character other than the newline NL.                         *)
(***************************************************************************)
TokA == "Person A:"
TokB == "Person B:"
SP == " "
NL == "\n"
Alphabet == {TokA, TokB, SP, NL, "x"}

IsSpace(c) == c \in {SP, NL}

RECURSIVE LStrip(_)
LStrip(s) == IF s # <<>> /\ IsSpace(Head(s)) THEN LStrip(Tail(s)) ELSE s

RECURSIVE RStrip(_)
RStrip(s) == IF s # <<>> /\ IsSpace(Last(s)) THEN RStrip(SubSeq(s, 1, Len(s) - 1)) ELSE s

\* str.strip()
Strip(s) == RStrip(LStrip(s))

\* str.startswith(p)
StartsWith(s, p) == Len(s) >= Len(p) /\ SubSeq(s, 1, Len(p)) = p

\* str.replace(old, new): every occurrence, left to right
RECURSIVE Replace(_, _, _)
Replace(s, old, new) ==
    IF s = <<>> THEN <<>>
    ELSE IF StartsWith(s, old)
         THEN new \o Replace(SubSeq(s, Len(old) + 1, Len(s)), old, new)
         ELSE <<Head(s)>> \o Replace(Tail(s), old, new)

\* str.split(sep) for a one-character sep: "".split(sep) is [""]
RECURSIVE Split(_, _)
Split(s, sep) ==
    IF \A i \in 1..Len(s) : s[i] # sep THEN <<s>>
    ELSE LET k == CHOOSE i \in 1..Len(s) : s[i] = sep /\ \A j \in 1..(i - 1) : s[j] # sep
         IN  <<SubSeq(s, 1, k - 1)>> \o Split(SubSeq(s, k + 1, Len(s)), sep)

\* sep.join(parts)
RECURSIVE Join(_, _)
Join(parts, sep) ==
    IF parts = <<>> THEN <<>>
    ELSE IF Len(parts) = 1 THEN parts[1]
    ELSE parts[1] \o sep \o Join(Tail(parts), sep)

(***************************************************************************)
(* parse_script                                                            *)
(***************************************************************************)
None == "None"
PersonA == "Person A"
PersonB == "Person B"

\* the loop state: segments, current_speaker, current_text
ParseStart == [segments |-> <<>>, current_speaker |-> None, current_text |-> <<>>]

\* `if not line: continue`
SkipNever(line) == FALSE
Skip(line) == line = <<>>

\* `if current_speaker and current_text:`
ShouldEmitText(speaker, text) == speaker # None /\ Join(text, <<SP>>) # <<>>
ShouldEmit(speaker, text) == speaker # None /\ text # <<>>

\* segments.append((current_speaker, ' '.join(current_text)))
Emit(st) ==
    IF ShouldEmit(st.current_speaker, st.current_text)
    THEN Append(st.segments, <<st.current_speaker, Join(st.current_text, <<SP>>)>>)
    ELSE st.segments

\* line.replace("Person A:", "").strip()
LabelContent(line, tok) == Strip(Replace(line, <<tok>>, <<>>))

\* the branch of a speaker-label line
StartSegment(st, line, speaker, tok) ==
    [segments |-> Emit(st),
     current_speaker |-> speaker,
     current_text |-> <<LabelContent(line, tok)>>]

\* the else branch: a line that starts with no label
ContinueSegment(st, line) ==
    IF st.current_speaker # None
    THEN [st EXCEPT !.current_text = Append(@, line)]
    ELSE st

\* the body of `for line in lines:`
ParseLine(st, raw) ==
    LET line == Strip(raw)
    IN  IF Skip(line) THEN st
        ELSE IF StartsWith(line, <<TokA>>) THEN StartSegment(st, line, PersonA, TokA)
        ELSE IF StartsWith(line, <<TokB>>) THEN StartSegment(st, line, PersonB, TokB)
        ELSE ContinueSegment(st, line)

RECURSIVE ParseLines(_, _)
ParseLines(st, lines) ==
    IF lines = <<>> THEN st ELSE ParseLines(ParseLine(st, Head(lines)), Tail(lines))

parse_script(s) == Emit(ParseLines(ParseStart, Split(s, NL)))

\* '<speaker>: <text>'
Rejoin(seg) == <<IF seg[1] = PersonA THEN TokA ELSE TokB, SP>> \o seg[2]

ParseInit ==
    /\ script \in SeqsUpTo(Alphabet, MaxLen)
    /\ segments = <<>>
    /\ rk = 0
    /\ reseg = <<>>
    /\ spc = "init"
    \* the other components are idle
    /\ variant = "channel" /\ url = InitialUrl /\ params = FALSE
    /\ all_messages = <<>> /\ reqs = <<>> /\ resps = <<>> /\ failed = FALSE
    /\ ppc = "idle" /\ presult = <<>>
    /\ gsegments = <<>> /\ use_elevenlabs = TRUE /\ has_key = TRUE /\ gi = 0
    /\ audio_segments = <<>> /\ failed_segments = <<>>
    /\ calls = <<>> /\ outcomes = <<>> /\ gpc = "idle" /\ gresult = <<>>
    /\ gerror = "none"
    /\ eclips = <<>> /\ writable = TRUE /\ ei = 0 /\ combined = <<>>
    /\ efile = <<"absent", FALSE, <<>>>> /\ efail_at = 0 /\ ereported = -1
    /\ epc = "idle" /\ eresult = "None" /\ eerror = "none"
    /\ ulink = <<>> /\ purl = <<>> /\ uresult = <<>> /\ upc = "idle"
    /\ tkey = TRUE /\ tresp = <<"response", 200>> /\ tbody = <<>> /\ tsdk = "none" /\ tpc = "idle" /\ tres = <<>> /\ terr = "none"
    /\ wcaller = "create" /\ wwiki = "text" /\ warticle = "unfetched" /\ wgroq = TRUE /\ wllm = <<>> /\ wvoices = TRUE /\ wscript = <<>> /\ wllm_calls = <<>> /\ wsegments = <<>> /\ wpc = "idle" /\ wresult = "None" /\ werror = "none"
    /\ greport = <<>>
    /\ groq_client = <<>> /\ openai_client = <<>> /\ groq_key = "None" /\ openai_key = "None" /\ chist = <<>>
    /\ ainterval = 1 /\ aexpires = 1 /\ anow = 0 /\ apolls = <<>> /\ apc = "idle" /\ aresult = "None"
    /\ xinfo = <<>> /\ xgroup = "unasked" /\ xteam = "None" /\ xreqs = <<>> /\ xpc = "idle" /\ xresult = <<>> /\ xerror = "none"

\* segments = parse_script(script)
ParseScript ==
    /\ spc = "init"
    /\ segments' = parse_script(script)
    /\ spc' = "parsed"
    /\ UNCHANGED <<script, rk, reseg>>
    /\ UNCHANGED <<pagVars, genVars, expVars, urlVars, ttsVars, pipeVars, repVars, clientVars, authVars, extractVars>>

\* parse_script on the k-th emitted segment re-joined with its label
Resegment(k) ==
    /\ spc = "parsed"
    /\ k \in 1..Len(segments)
    /\ rk' = k
    /\ reseg' = parse_script(Rejoin(segments[k]))
    /\ spc' = "reseg"
    /\ UNCHANGED <<script, segments>>
    /\ UNCHANGED <<pagVars, genVars, expVars, urlVars, ttsVars, pipeVars, repVars, clientVars, authVars, extractVars>>

ParseNext ==
    \/ ParseScript
    \/ \E k \in 1..MaxLen : Resegment(k)

ParseSpec == ParseInit /\ [][ParseNext]_vars

(***************************************************************************)
(* parse_script claims                                                     *)
(***************************************************************************)
StrippedLines(s) == LET ls == Split(s, NL) IN [i \in 1..Len(ls) |-> Strip(ls[i])]

IsLabelLine(line) == StartsWith(line, <<TokA>>) \/ StartsWith(line, <<TokB>>)
IsBlank(line) == Strip(line) = <<>>
SpeakerOf(line) == IF StartsWith(line, <<TokA>>) THEN PersonA ELSE PersonB

LabelLines(s) == SelectSeq(StrippedLines(s), IsLabelLine)

\* C6: parse_script emits exactly one segment per speaker-label line, in the
\* order of the label lines and with that label's speaker; no label line (or
\* empty input) gives the empty sequence; a label line with no text after it
\* still gives its own segment.
C6_OneSegmentPerLabel ==
    spc = "parsed" =>
        /\ Len(segments) = Len(LabelLines(script))
        /\ \A k \in 1..Len(segments) : segments[k][1] = SpeakerOf(LabelLines(script)[k])

C6_Witness ==
    /\ spc = "parsed"
    /\ StrippedLines(script) = <<<<TokB>>, <<"x">>, <<TokA>>>>
    /\ segments = <<<<PersonB, <<SP, "x">>>>, <<PersonA, <<>>>>>>

\* The segments as the specification describes them: for each label line, the
\* content after its label followed by every later non-blank non-label line up
\* to the next label line, joined by single spaces.
RECURSIVE SpecSegments(_, _, _)
SpecSegments(lines, speaker, text) ==
    IF lines = <<>>
    THEN IF speaker = None THEN <<>> ELSE <<<<speaker, Join(text, <<SP>>)>>>>
    ELSE LET line == Head(lines)
         IN  IF IsLabelLine(line)
             THEN (IF speaker = None THEN <<>> ELSE <<<<speaker, Join(text, <<SP>>)>>>>)
                  \o SpecSegments(Tail(lines), SpeakerOf(line),
                                  <<Strip(SubSeq(line, 2, Len(line)))>>)
             ELSE IF line = <<>> \/ speaker = None
                  THEN SpecSegments(Tail(lines), speaker, text)
                  ELSE SpecSegments(Tail(lines), speaker, Append(text, line))

\* C7: every emitted segment's text is the label line's content after its
\* label followed by every later non-blank non-label line up to the next label
\* line or the end of input, joined by single spaces, and nothing else.
C7_TextIsConcatenation ==
    spc = "parsed" => segments = SpecSegments(StrippedLines(script), None, <<>>)

\* The transcript without its blank lines and without the non-label lines that
\* precede the first label line.
RECURSIVE DropLeading(_)
DropLeading(lines) ==
    IF lines = <<>> \/ IsLabelLine(Strip(Head(lines))) THEN lines
    ELSE DropLeading(Tail(lines))

NotBlank(line) == ~IsBlank(line)
Pruned(s) == Join(DropLeading(SelectSeq(Split(s, NL), NotBlank)), <<NL>>)

\* C8: non-label lines before the first speaker label and blank lines
\* contribute to no segment and neither close nor open one: the result is the
\* result for the transcript with those lines removed.
C8_LeadingAndBlankDropped ==
    spc = "parsed" => segments = parse_script(Pruned(script))

C8_Witness ==
    /\ spc = "parsed"
    /\ script = <<"x", NL, TokA, NL, NL, "x">>
    /\ segments = <<<<PersonA, <<SP, "x">>>>>>

\* C9: re-joining an emitted segment's text with its label and re-segmenting
\* returns exactly that one segment.
C9_Idempotent ==
    spc = "reseg" => reseg = <<segments[rk]>>

(***************************************************************************)
(* generate_audio_for_segments                                             *)
(***************************************************************************)
LaughsTok == "[laughs]"
LaughTok == "[laugh]"

\* the default voice arguments
VoiceAId == "21m00Tcm4TlvDq8ikWAM"
VoiceBId == "pNInz6obpgDQGcFmaJgB"
OpenaiVoiceA == "nova"
OpenaiVoiceB == "onyx"

\* dialogue texts of the segments handed in
GenTexts == {<<"x", SP, LaughsTok>>, <<LaughsTok, SP, LaughTok>>}
GenSegments == {<<sp, t>> : sp \in {PersonA, PersonB}, t \in GenTexts}

\* What a synthesis call does: it returns non-empty bytes, returns nothing
\* usable (b"" or None), or raises.
TtsOutcomes == {"bytes", "empty", "raise"}

\* text_to_speech_elevenlabs / text_to_speech_openai raise ValueError before any
\* request when the key (the client) is missing.
PossibleOutcomes(key) == IF key THEN TtsOutcomes ELSE {"raise"}

\* `except Exception` inside the loop: every exception of the call, the
\* ValueError of a missing key included, is caught and the loop goes on.
CaughtOnlyWithKey(key) == key
CaughtInLoop(key) == TRUE

\* failed_segments.append(i+1)
FailedIndexZeroBased(i) == i
FailedIndex(i) == i + 1

\* the bytes returned by the call made for segment i
Clip(i) == i

\* dialogue.replace("[laughs]", "").replace("[laugh]", "").strip()
CleanLaughsOnly(dialogue) == Strip(Replace(dialogue, <<LaughsTok>>, <<>>))
Clean(dialogue) ==
    Strip(Replace(Replace(dialogue, <<LaughsTok>>, <<>>), <<LaughTok>>, <<>>))

\* voice_a if speaker == "Person A" else voice_b (ElevenLabs), and the same
\* choice among the OpenAI voices
VoiceAlwaysA(speaker, elevenlabs) == IF elevenlabs THEN VoiceAId ELSE OpenaiVoiceA
VoiceFor(speaker, elevenlabs) ==
    IF elevenlabs
    THEN (IF speaker = PersonA THEN VoiceAId ELSE VoiceBId)
    ELSE (IF speaker = PersonA THEN OpenaiVoiceA ELSE OpenaiVoiceB)

\* `if audio_bytes and len(audio_bytes) > 0:` for a call that returned
AcceptAny(outcome) == outcome \in {"bytes", "empty"}
Accept(outcome) == outcome = "bytes"

\* `if len(audio_segments) == 0:` after the loop
NothingGeneratedOrFailure(audio, failures) == Len(audio) = 0 \/ Len(failures) > 0
NothingGenerated(audio, failures) == Len(audio) = 0

\* `if len(failed_segments) > 0: print(f"... {len(failed_segments)} segments
\* failed, but {len(audio_segments)} succeeded")`
ReportNever(audio, failures) == <<>>
Report(audio, failures) ==
    IF Len(failures) > 0 THEN <<Len(failures), Len(audio)>> ELSE <<>>

GenInit ==
    /\ gsegments \in SeqsUpTo(GenSegments, MaxSegs)
    /\ use_elevenlabs \in BOOLEAN
    /\ has_key \in BOOLEAN
    /\ gi = 0
    /\ audio_segments = <<>>
    /\ failed_segments = <<>>
    /\ calls = <<>>
    /\ outcomes = <<>>
    /\ gpc = "loop"
    /\ gresult = <<>>
    /\ gerror = "none"
    \* the other components are idle
    /\ variant = "channel" /\ url = InitialUrl /\ params = FALSE
    /\ all_messages = <<>> /\ reqs = <<>> /\ resps = <<>> /\ failed = FALSE
    /\ ppc = "idle" /\ presult = <<>>
    /\ script = <<>> /\ segments = <<>> /\ rk = 0 /\ reseg = <<>> /\ spc = "idle"
    /\ eclips = <<>> /\ writable = TRUE /\ ei = 0 /\ combined = <<>>
    /\ efile = <<"absent", FALSE, <<>>>> /\ efail_at = 0 /\ ereported = -1
    /\ epc = "idle" /\ eresult = "None" /\ eerror = "none"
    /\ ulink = <<>> /\ purl = <<>> /\ uresult = <<>> /\ upc = "idle"
    /\ tkey = TRUE /\ tresp = <<"response", 200>> /\ tbody = <<>> /\ tsdk = "none" /\ tpc = "idle" /\ tres = <<>> /\ terr = "none"
    /\ wcaller = "create" /\ wwiki = "text" /\ warticle = "unfetched" /\ wgroq = TRUE /\ wllm = <<>> /\ wvoices = TRUE /\ wscript = <<>> /\ wllm_calls = <<>> /\ wsegments = <<>> /\ wpc = "idle" /\ wresult = "None" /\ werror = "none"
    /\ greport = <<>>
    /\ groq_client = <<>> /\ openai_client = <<>> /\ groq_key = "None" /\ openai_key = "None" /\ chist = <<>>
    /\ ainterval = 1 /\ aexpires = 1 /\ anow = 0 /\ apolls = <<>> /\ apc = "idle" /\ aresult = "None"
    /\ xinfo = <<>> /\ xgroup = "unasked" /\ xteam = "None" /\ xreqs = <<>> /\ xpc = "idle" /\ xresult = <<>> /\ xerror = "none"

\* A loop iteration whose cleaned text is empty: `continue`.
SkipSegment ==
    /\ gpc = "loop"
    /\ gi < Len(gsegments)
    /\ Clean(gsegments[gi + 1][2]) = <<>>
    /\ gi' = gi + 1
    /\ outcomes' = Append(outcomes, "skipped")
    /\ UNCHANGED <<gsegments, use_elevenlabs, has_key, audio_segments, failed_segments,
                   calls, gpc, gresult, gerror>>
    /\ UNCHANGED <<pagVars, parseVars, expVars, urlVars, ttsVars, pipeVars, repVars, clientVars, authVars, extractVars>>

\* A loop iteration that makes the synthesis call, with its outcome o.
SynthesizeSegment(o) ==
    /\ gpc = "loop"
    /\ gi < Len(gsegments)
    /\ Clean(gsegments[gi + 1][2]) # <<>>
    /\ o \in PossibleOutcomes(has_key)
    /\ calls' = Append(calls, <<gi + 1, use_elevenlabs,
                                VoiceFor(gsegments[gi + 1][1], use_elevenlabs),
                                Clean(gsegments[gi + 1][2])>>)
    /\ outcomes' = Append(outcomes, o)
    /\ IF o = "raise" /\ ~CaughtInLoop(has_key)
       THEN \* the exception leaves the function
            /\ gpc' = "raised"
            /\ gerror' = "credential_missing"
            /\ UNCHANGED <<gi, audio_segments, failed_segments>>
       ELSE /\ IF o # "raise" /\ Accept(o)
               THEN /\ audio_segments' = Append(audio_segments, Clip(gi + 1))
                    /\ failed_segments' = failed_segments
               ELSE /\ audio_segments' = audio_segments
                    /\ failed_segments' = Append(failed_segments, FailedIndex(gi))
            /\ gi' = gi + 1
            /\ UNCHANGED <<gpc, gerror>>
    /\ UNCHANGED <<gsegments, use_elevenlabs, has_key, gresult>>
    /\ UNCHANGED <<pagVars, parseVars, expVars, urlVars, ttsVars, pipeVars, repVars, clientVars, authVars, extractVars>>

\* After the loop: raise if nothing was generated, else return audio_segments.
FinishSegments ==
    /\ gpc = "loop"
    /\ gi = Len(gsegments)
    /\ IF NothingGenerated(audio_segments, failed_segments)
       THEN /\ gpc' = "raised"
            /\ gerror' = "all_failed"
            /\ gresult' = gresult
       ELSE /\ gpc' = "returned"
            /\ gerror' = gerror
            /\ gresult' = audio_segments
    /\ greport' = (IF NothingGenerated(audio_segments, failed_segments)
                   THEN greport ELSE Report(audio_segments, failed_segments))
    /\ UNCHANGED <<gsegments, use_elevenlabs, has_key, gi, audio_segments,
                   failed_segments, calls, outcomes>>
    /\ UNCHANGED <<pagVars, parseVars, expVars, urlVars, ttsVars, pipeVars, clientVars, authVars, extractVars>>

GenNext ==
    \/ SkipSegment
    \/ \E o \in TtsOutcomes : SynthesizeSegment(o)
    \/ FinishSegments

GenSpec == GenInit /\ [][GenNext]_vars

(***************************************************************************)
(* generate_audio_for_segments claims                                      *)
(***************************************************************************)
\* the clips of the segments whose synthesis succeeded, in segment order
RECURSIVE SuccessfulClips(_, _)
SuccessfulClips(os, n) ==
    IF n = 0 THEN <<>>
    ELSE SuccessfulClips(os, n - 1) \o (IF os[n] = "bytes" THEN <<Clip(n)>> ELSE <<>>)

\* C10: whenever at least one segment's synthesis succeeds,
\* generate_audio_for_segments does not raise and returns exactly the clips of
\* the successful segments, in segment order, the failed ones dropped.
C10_PartialSuccess ==
    (gpc \in {"returned", "raised"} /\ \E i \in 1..Len(outcomes) : outcomes[i] = "bytes") =>
        /\ gpc = "returned"
        /\ gresult = SuccessfulClips(outcomes, Len(outcomes))

C10_Witness ==
    /\ gpc = "returned"
    /\ Len(gsegments) = 5
    /\ outcomes = <<"bytes", "raise", "bytes", "empty", "bytes">>
    /\ gresult = <<Clip(1), Clip(3), Clip(5)>>

GenDone == gpc \in {"returned", "raised"}

\* the indices (1-based) of the segments whose call was made and gave no clip
RECURSIVE FailedCalls(_, _)
FailedCalls(os, n) ==
    IF n = 0 THEN <<>>
    ELSE FailedCalls(os, n - 1) \o (IF os[n] \in {"empty", "raise"} THEN <<n>> ELSE <<>>)

\* C11 as stated: given N >= 1 segments of which none yields a clip, the error
\* raised lists all N segment indices, whatever the reason a segment gave no clip.
C11_AllIndicesListed ==
    (gpc = "raised" /\ Len(gsegments) >= 1) =>
        failed_segments = [i \in 1..Len(gsegments) |-> i]

\* C11 amended: when no segment yields a clip the all-segments-failed error is
\* raised, and the indices it lists are exactly the 1-based indices of the
\* segments whose synthesis call was made and failed, in segment order; the
\* segments skipped as empty are not listed.
C11_FailedIndicesListed ==
    /\ gpc = "raised" =>
          /\ gerror = "all_failed"
          /\ \A i \in 1..Len(outcomes) : outcomes[i] # "bytes"
          /\ failed_segments = FailedCalls(outcomes, Len(outcomes))
    /\ (GenDone /\ \A i \in 1..Len(outcomes) : outcomes[i] # "bytes") => gpc = "raised"

C11_Witness ==
    /\ gpc = "raised"
    /\ outcomes = <<"raise", "skipped", "empty">>
    /\ failed_segments = <<1, 3>>

\* C12: a missing API credential is detected once before the loop and aborts
\* with a credential-missing error: no segment is attempted and nothing is
\* recorded as a per-segment failure.
C12_CredentialCheckedFirst ==
    ~has_key =>
        /\ calls = <<>>
        /\ failed_segments = <<>>
        /\ (gpc = "raised" /\ gsegments # <<>>) => gerror = "credential_missing"

\* the text without the markup tokens '[laughs]' and '[laugh]', trimmed
NotMarkup(c) == c \notin {LaughsTok, LaughTok}
WithoutMarkup(text) == Strip(SelectSeq(text, NotMarkup))

CallsFor(i) == {k \in 1..Len(calls) : calls[k][1] = i}

\* C13: a segment whose text is empty after removing '[laughs]' and '[laugh]'
\* and trimming gets no synthesis call and gives no clip; every other segment's
\* call is sent the cleaned text, never the raw text.
C13_EmptySkipped ==
    \A i \in 1..gi :
        IF WithoutMarkup(gsegments[i][2]) = <<>>
        THEN /\ CallsFor(i) = {}
             /\ \A k \in 1..Len(audio_segments) : audio_segments[k] # Clip(i)
        ELSE /\ Cardinality(CallsFor(i)) = 1
             /\ \A k \in CallsFor(i) : calls[k][4] = WithoutMarkup(gsegments[i][2])

C13_Witness ==
    /\ gpc = "returned"
    /\ gsegments = <<<<PersonA, <<LaughsTok, SP, LaughTok>>>>, <<PersonB, <<"x", SP, LaughsTok>>>>>>
    /\ Len(calls) = 1
    /\ calls[1][1] = 2 /\ calls[1][4] = <<"x">>
    /\ gresult = <<Clip(2)>>

\* the indices of the first n segments whose cleaned text is not empty
RECURSIVE SpeechIndices(_, _)
SpeechIndices(segs, n) ==
    IF n = 0 THEN <<>>
    ELSE SpeechIndices(segs, n - 1)
         \o (IF WithoutMarkup(segs[n][2]) # <<>> THEN <<n>> ELSE <<>>)

\* C14: a failed synthesis call never stops the loop: whatever the outcomes of
\* the earlier segments, the calls made are those of the segments with
\* non-empty cleaned text, in segment order; the function ends only after the
\* last segment, and until then the loop stands at the segment after the last
\* outcome.
C14_LoopNeverStops ==
    /\ [k \in 1..Len(calls) |-> calls[k][1]] = SpeechIndices(gsegments, Len(outcomes))
    /\ GenDone => Len(outcomes) = Len(gsegments)
    /\ gpc = "loop" => gi = Len(outcomes) /\ gi <= Len(gsegments)

C14_Witness ==
    /\ GenDone
    /\ outcomes = <<"raise", "empty", "raise", "bytes">>
    /\ Len(calls) = 4
    /\ calls[4][1] = 4

(***************************************************************************)
(* combine_and_export_audio                                                *)
(*                                                                         *)
(* A clip is a sequence of tokens, each standing for one block of encoded  *)
(* audio; a decoded clip, a silence and the exported track are items       *)
(* <<kind, data, milliseconds>>.  The file at the output location is       *)
(* <<kind, normalized, content>>.                                          *)
(***************************************************************************)
MaxClips == 3

\* one token of a clip: 4000 bytes of MP3, which decode to 250 ms
BlockBytes == 4000
BlockMs == 250

\* AudioSegment.silent(duration=300)
SilenceMs == 300

\* estimated_duration = len(combined_audio) / 10000
BytesPerSecond == 10000

OutputFilename == "hinglish_conversation.mp3"

\* zero-length, one-block and two-block clips
ClipData == {<<>>, <<"a">>, <<"b", "c">>}

\* what may be at the output location before the call
AbsentFile == <<"absent", FALSE, <<>>>>
EmptyFile == <<"empty", FALSE, <<>>>>
PriorFiles == {AbsentFile, EmptyFile, <<"old", FALSE, <<"old">>>>}

\* AudioSegment.from_mp3(...) followed by .normalize(): it yields the decoded
\* clip or raises; zero bytes are never decodable.
DecodeOutcomes(clip) == IF clip = <<>> THEN {"raise"} ELSE {"ok", "raise"}

\* normalize(combined_audio_seg) and .export(output_filename): the encoder may
\* fail on any destination, and an unwritable destination always fails.
ExportOutcomes(w) == IF w THEN {"ok", "raise"} ELSE {"raise"}

\* what a failed export may leave at a writable output location
PartialFile == <<"partial", FALSE, <<"junk">>>>
ExportLeftovers(file) == {file, PartialFile}

NormalizedClip(clip) == <<"clip", clip, BlockMs * Len(clip)>>
Silence == <<"silence", <<>>, SilenceMs>>

\* combined_audio_seg += audio_seg; combined_audio_seg += AudioSegment.silent(...)
AddToTrack(track, clip) == track \o <<NormalizedClip(clip), Silence>>

\* len(combined_audio_seg), in milliseconds
RECURSIVE TrackMs(_)
TrackMs(track) == IF track = <<>> THEN 0 ELSE Head(track)[3] + TrackMs(Tail(track))

\* n/d rounded to an integer as the format specs .0f and .1f round
RoundHalfEven(n, d) ==
    LET q == n \div d
        r == n % d
    IN  IF 2 * r < d THEN q
        ELSE IF 2 * r > d THEN q + 1
        ELSE IF q % 2 = 0 THEN q ELSE q + 1

\* f"{duration_seconds:.1f}" with duration_seconds = len(...) / 1000.0, in tenths
DurationTenths(ms) == RoundHalfEven(ms, 100)

\* f"~{estimated_duration:.0f}" with estimated_duration = len(bytes) / 10000
EstimatedDurationCeil(bytes) == (bytes + BytesPerSecond - 1) \div BytesPerSecond
EstimatedDuration(bytes) == RoundHalfEven(bytes, BytesPerSecond)

\* `if not audio_segments:`
NoClipsNever(clips) == FALSE
NoClips(clips) == clips = <<>>

\* b''.join(audio_segments) written through open(output_filename, 'wb')
FallbackAppend(prev, clips) == prev \o Flatten(clips)
FallbackContent(prev, clips) == Flatten(clips)

\* open(output_filename, 'wb') raises OSError, and nothing catches it
FallbackRaisesNever(w) == FALSE
FallbackRaises(w) == ~w

ExportInit ==
    /\ eclips \in SeqsUpTo(ClipData, MaxClips)
    /\ writable \in BOOLEAN
    /\ ei = 0
    /\ combined = <<>>
    /\ efile \in PriorFiles
    /\ efail_at = 0
    /\ ereported = -1
    /\ epc = "start"
    /\ eresult = None
    /\ eerror = "none"
    \* the other components are idle
    /\ variant = "channel" /\ url = InitialUrl /\ params = FALSE
    /\ all_messages = <<>> /\ reqs = <<>> /\ resps = <<>> /\ failed = FALSE
    /\ ppc = "idle" /\ presult = <<>>
    /\ script = <<>> /\ segments = <<>> /\ rk = 0 /\ reseg = <<>> /\ spc = "idle"
    /\ gsegments = <<>> /\ use_elevenlabs = TRUE /\ has_key = TRUE /\ gi = 0
    /\ audio_segments = <<>> /\ failed_segments = <<>>
    /\ calls = <<>> /\ outcomes = <<>> /\ gpc = "idle" /\ gresult = <<>>
    /\ gerror = "none"
    /\ ulink = <<>> /\ purl = <<>> /\ uresult = <<>> /\ upc = "idle"
    /\ tkey = TRUE /\ tresp = <<"response", 200>> /\ tbody = <<>> /\ tsdk = "none" /\ tpc = "idle" /\ tres = <<>> /\ terr = "none"
    /\ wcaller = "create" /\ wwiki = "text" /\ warticle = "unfetched" /\ wgroq = TRUE /\ wllm = <<>> /\ wvoices = TRUE /\ wscript = <<>> /\ wllm_calls = <<>> /\ wsegments = <<>> /\ wpc = "idle" /\ wresult = "None" /\ werror = "none"
    /\ greport = <<>>
    /\ groq_client = <<>> /\ openai_client = <<>> /\ groq_key = "None" /\ openai_key = "None" /\ chist = <<>>
    /\ ainterval = 1 /\ aexpires = 1 /\ anow = 0 /\ apolls = <<>> /\ apc = "idle" /\ aresult = "None"
    /\ xinfo = <<>> /\ xgroup = "unasked" /\ xteam = "None" /\ xreqs = <<>> /\ xpc = "idle" /\ xresult = <<>> /\ xerror = "none"

\* if not audio_segments: print(...); return None
ReturnNone ==
    /\ epc = "start"
    /\ NoClips(eclips)
    /\ epc' = "returned"
    /\ eresult' = None
    /\ UNCHANGED <<eclips, writable, ei, combined, efile, efail_at, ereported, eerror>>
    /\ UNCHANGED <<pagVars, parseVars, genVars, urlVars, ttsVars, pipeVars, repVars, clientVars, authVars, extractVars>>

\* combined_audio_seg = AudioSegment.empty()
BeginCombine ==
    /\ epc = "start"
    /\ ~NoClips(eclips)
    /\ epc' = "loop"
    /\ combined' = <<>>
    /\ UNCHANGED <<eclips, writable, ei, efile, efail_at, ereported, eresult, eerror>>
    /\ UNCHANGED <<pagVars, parseVars, genVars, urlVars, ttsVars, pipeVars, repVars, clientVars, authVars, extractVars>>

\* one iteration of `for audio_bytes in audio_segments:`
AddClip(o) ==
    /\ epc = "loop"
    /\ ei < Len(eclips)
    /\ o \in DecodeOutcomes(eclips[ei + 1])
    /\ IF o = "ok"
       THEN /\ combined' = AddToTrack(combined, eclips[ei + 1])
            /\ ei' = ei + 1
            /\ UNCHANGED <<epc, efail_at>>
       ELSE /\ epc' = "fallback"
            /\ efail_at' = ei + 1
            /\ UNCHANGED <<combined, ei>>
    /\ UNCHANGED <<eclips, writable, efile, ereported, eresult, eerror>>
    /\ UNCHANGED <<pagVars, parseVars, genVars, urlVars, ttsVars, pipeVars, repVars, clientVars, authVars, extractVars>>

\* after the loop: final normalize, export, report the duration, return
ExportTrack(o, left) ==
    /\ epc = "loop"
    /\ ei = Len(eclips)
    /\ o \in ExportOutcomes(writable)
    /\ left \in (IF writable THEN ExportLeftovers(efile) ELSE {efile})
    /\ IF o = "ok"
       THEN /\ efile' = <<"mp3", TRUE, combined>>
            /\ ereported' = DurationTenths(TrackMs(combined))
            /\ epc' = "returned"
            /\ eresult' = OutputFilename
            /\ efail_at' = efail_at
       ELSE /\ efile' = left
            /\ epc' = "fallback"
            /\ efail_at' = Len(eclips) + 1
            /\ UNCHANGED <<ereported, eresult>>
    /\ UNCHANGED <<eclips, writable, ei, combined, eerror>>
    /\ UNCHANGED <<pagVars, parseVars, genVars, urlVars, ttsVars, pipeVars, repVars, clientVars, authVars, extractVars>>

\* except Exception: write the joined bytes, report the estimate, return
Fallback ==
    /\ epc = "fallback"
    /\ IF FallbackRaises(writable)
       THEN /\ epc' = "raised"
            /\ eerror' = "OSError"
            /\ UNCHANGED <<efile, ereported, eresult>>
       ELSE /\ efile' = <<"raw", FALSE, FallbackContent(efile[3], eclips)>>
            /\ ereported' = 10 * EstimatedDuration(Len(Flatten(eclips)) * BlockBytes)
            /\ epc' = "returned"
            /\ eresult' = OutputFilename
            /\ eerror' = eerror
    /\ UNCHANGED <<eclips, writable, ei, combined, efail_at>>
    /\ UNCHANGED <<pagVars, parseVars, genVars, urlVars, ttsVars, pipeVars, repVars, clientVars, authVars, extractVars>>

ExportNext ==
    \/ ReturnNone
    \/ BeginCombine
    \/ \E o \in {"ok", "raise"} : AddClip(o)
    \/ \E o \in {"ok", "raise"} : \E left \in PriorFiles \cup {PartialFile} : ExportTrack(o, left)
    \/ Fallback

ExportSpec == ExportInit /\ [][ExportNext]_vars

(***************************************************************************)
(* Claims about combine_and_export_audio                                   *)
(***************************************************************************)
ExportDone == epc \in {"returned", "raised"}

\* nothing was written to the output location
Unwritten == efile \in PriorFiles

\* C15 (as stated): called with an empty clip sequence, the function raises an
\* error to its caller instead of returning, and writes no output file.
C15_EmptyRaises ==
    (eclips = <<>> /\ ExportDone) => (epc = "raised" /\ eerror # "none" /\ Unwritten)

\* C15 (amended): called with an empty clip sequence, the function returns None
\* without raising, reports no duration and writes no output file.
C15_EmptyReturnsNone ==
    (eclips = <<>> /\ epc # "start") =>
        /\ epc = "returned"
        /\ eresult = None
        /\ eerror = "none"
        /\ ereported = -1
        /\ Unwritten

C15_Witness ==
    /\ eclips = <<>>
    /\ epc = "returned"
    /\ eresult = None
    /\ efile[1] = "old"

\* the bytes of all clips together
TotalBytes(clips) == Len(Flatten(clips)) * BlockBytes

\* C16 (as stated): for every non-empty clip sequence the function produces an
\* output and the duration it reports is strictly greater than 0, on the
\* normal path and on the fallback path.
C16_DurationPositive ==
    (eclips # <<>> /\ ExportDone) =>
        (epc = "returned" /\ eresult = OutputFilename /\ ereported > 0)

\* C16 (amended): for a non-empty clip sequence and a writable destination the
\* function produces an output; on the normal path the reported duration is
\* at least 0.3 s per clip, on the fallback path it is the byte count divided
\* by 10000 and rounded to whole seconds, which is 0 up to 5000 bytes.  With an
\* unwritable destination there is no output and no duration.
C16_ReportedDuration ==
    (eclips # <<>> /\ ExportDone) =>
        IF writable
        THEN /\ epc = "returned"
             /\ eresult = OutputFilename
             /\ efile[1] \in {"mp3", "raw"}
             /\ efile[1] = "mp3" => ereported >= 3 * Len(eclips)
             /\ efile[1] = "raw" =>
                   /\ ereported = 10 * RoundHalfEven(TotalBytes(eclips), 10000)
                   /\ ereported > 0 <=> TotalBytes(eclips) > 5000
        ELSE epc = "raised" /\ ereported = -1

C16_Witness ==
    /\ eclips = << <<>> >>
    /\ epc = "returned"
    /\ efile[1] = "raw"
    /\ ereported = 0

\* the clips, normalized, with one silence between consecutive clips only
RECURSIVE Interleaved(_)
Interleaved(clips) ==
    IF clips = <<>> THEN <<>>
    ELSE IF Len(clips) = 1 THEN <<NormalizedClip(clips[1])>>
    ELSE <<NormalizedClip(clips[1]), Silence>> \o Interleaved(Tail(clips))

\* C17: on the normal path the exported track is the normalized clips in input
\* order with a 300 ms silence between consecutive clips only (N-1 gaps, none
\* after the last clip), normalized once more as a whole.
C17_SilenceOnlyBetween ==
    (epc = "returned" /\ efile[1] = "mp3") =>
        (efile[2] /\ efile[3] = Interleaved(eclips))

\* C18: when a step of the normal path fails for a non-empty clip sequence and
\* the destination is writable, the function returns the output location and
\* the file holds exactly the clips' bytes in input order.
C18_FallbackWritesConcatenation ==
    (eclips # <<>> /\ writable /\ efail_at > 0 /\ epc # "fallback") =>
        /\ epc = "returned"
        /\ eresult = OutputFilename
        /\ eerror = "none"
        /\ efile[1] = "raw"
        /\ ~efile[2]
        /\ efile[3] = Flatten(eclips)

C18_Witness ==
    /\ eclips = << <<"b", "c">>, <<"a">> >>
    /\ efail_at = 3
    /\ epc = "returned"
    /\ efile = <<"raw", FALSE, <<"b", "c", "a">>>>

\* C19: when the output location cannot be written, the function raises to its
\* caller and returns no output location, whether the normal path got as far
\* as the export or failed earlier.
C19_UnwritableSurfaces ==
    /\ ~writable => (eresult # OutputFilename /\ Unwritten)
    /\ (~writable /\ eclips # <<>> /\ ExportDone) =>
          (epc = "raised" /\ eerror = "OSError" /\ efail_at > 0)

C19_Witness ==
    /\ ~writable
    /\ Len(eclips) = 2
    /\ efail_at = 3
    /\ epc = "raised"

(***************************************************************************)
(* parse_channel_url                                                       *)
(*                                                                         *)
(* The URL is a sequence of tokens: the scheme and host as one token, the  *)
(* delimiters "/", "?", "&", "=", "#" and names/values.  A field of the    *)
(* result is a sequence of tokens ("" is <<>>) or Null.                    *)
(***************************************************************************)
MaxPath == 3
MaxPairs == 2

Host == "https://teams.microsoft.com"
Null == <<None>>
IndexError == <<"IndexError">>

\* Format: /l/channel/{channelId}/...
PathSegs == {<<"l">>, <<"channel">>, <<"19%3Aa">>, <<>>}

\* ...?groupId=...&tenantId=...
QueryPairs ==
    {<<"groupId", "=", "g1">>, <<"groupId", "=", "g2">>, <<"groupId", "=">>,
     <<"tenantId", "=", "t1">>, <<"tenantId">>, <<"x", "=", "channel">>}

RECURSIVE PathText(_)
PathText(segs) ==
    IF segs = <<>> THEN <<>> ELSE <<"/">> \o Head(segs) \o PathText(Tail(segs))

\* the text of a deep link
UrlText(link) ==
    <<Host>> \o PathText(link[1])
    \o (IF link[2] = <<>> THEN <<>> ELSE <<"?">> \o Join(link[2], <<"&">>))
    \o (IF link[3] THEN <<"#", "f">> ELSE <<>>)

\* s.split(sep, 1)[0] and what follows the first sep ("" when there is none)
Before(s, sep) == Split(s, sep)[1]
After(s, sep) == SubSeq(s, Len(Before(s, sep)) + 2, Len(s))

\* urllib.parse.urlparse(url).path and .query
UrlPath(u) == Before(Before(Tail(u), "#"), "?")
UrlQuery(u) == After(Before(Tail(u), "#"), "?")

\* urllib.parse.unquote
UnquoteToken(t) == IF t = "19%3Aa" THEN "19:a" ELSE t
UnquoteNever(s) == s
Unquote(s) == [i \in 1..Len(s) |-> UnquoteToken(s[i])]

\* urllib.parse.parse_qs(query): empty pieces, pieces without "=" and pieces
\* with a blank value are dropped; names and values are unquoted
RECURSIVE ParseQsl(_)
ParseQsl(pieces) ==
    IF pieces = <<>> THEN <<>>
    ELSE LET nv == Head(pieces)
         IN  (IF /\ nv # <<>>
                 /\ \E i \in 1..Len(nv) : nv[i] = "="
                 /\ After(nv, "=") # <<>>
              THEN << <<Unquote(Before(nv, "=")), Unquote(After(nv, "="))>> >>
              ELSE <<>>)
             \o ParseQsl(Tail(pieces))
ParseQs(query) == ParseQsl(Split(query, "&"))

\* params.get(key, [None])[0]
QueryGet(pairs, key) ==
    IF \E i \in 1..Len(pairs) : pairs[i][1] = key
    THEN pairs[CHOOSE i \in 1..Len(pairs) :
                   pairs[i][1] = key /\ \A j \in 1..(i - 1) : pairs[j][1] # key][2]
    ELSE Null

\* `if idx + 1 < len(path_parts):` (idx counted from 1 here)
HasNextAlways(idx, parts) == TRUE
HasNext(idx, parts) == idx + 1 <= Len(parts)

\* the channel_id computed from path_parts
ChannelId(parts) ==
    IF \E i \in 1..Len(parts) : parts[i] = <<"channel">>
    THEN LET idx == CHOOSE i \in 1..Len(parts) :
                        parts[i] = <<"channel">> /\ \A j \in 1..(i - 1) : parts[j] # <<"channel">>
         IN  IF HasNext(idx, parts)
             THEN (IF idx + 1 <= Len(parts) THEN Unquote(parts[idx + 1]) ELSE IndexError)
             ELSE Null
    ELSE Null

parse_channel_url(u) ==
    LET qs == ParseQs(UrlQuery(u))
    IN  <<QueryGet(qs, <<"groupId">>),
          QueryGet(qs, <<"tenantId">>),
          ChannelId(Split(UrlPath(u), "/"))>>

UrlInit ==
    /\ ulink \in SeqsUpTo(PathSegs, MaxPath) \X SeqsUpTo(QueryPairs, MaxPairs) \X BOOLEAN
    /\ purl = UrlText(ulink)
    /\ uresult = <<>>
    /\ upc = "start"
    \* the other components are idle
    /\ variant = "channel" /\ url = InitialUrl /\ params = FALSE
    /\ all_messages = <<>> /\ reqs = <<>> /\ resps = <<>> /\ failed = FALSE
    /\ ppc = "idle" /\ presult = <<>>
    /\ script = <<>> /\ segments = <<>> /\ rk = 0 /\ reseg = <<>> /\ spc = "idle"
    /\ gsegments = <<>> /\ use_elevenlabs = TRUE /\ has_key = TRUE /\ gi = 0
    /\ audio_segments = <<>> /\ failed_segments = <<>>
    /\ calls = <<>> /\ outcomes = <<>> /\ gpc = "idle" /\ gresult = <<>>
    /\ gerror = "none"
    /\ eclips = <<>> /\ writable = TRUE /\ ei = 0 /\ combined = <<>>
    /\ efile = <<"absent", FALSE, <<>>>> /\ efail_at = 0 /\ ereported = -1
    /\ epc = "idle" /\ eresult = "None" /\ eerror = "none"
    /\ tkey = TRUE /\ tresp = <<"response", 200>> /\ tbody = <<>> /\ tsdk = "none" /\ tpc = "idle" /\ tres = <<>> /\ terr = "none"
    /\ wcaller = "create" /\ wwiki = "text" /\ warticle = "unfetched" /\ wgroq = TRUE /\ wllm = <<>> /\ wvoices = TRUE /\ wscript = <<>> /\ wllm_calls = <<>> /\ wsegments = <<>> /\ wpc = "idle" /\ wresult = "None" /\ werror = "none"
    /\ greport = <<>>
    /\ groq_client = <<>> /\ openai_client = <<>> /\ groq_key = "None" /\ openai_key = "None" /\ chist = <<>>
    /\ ainterval = 1 /\ aexpires = 1 /\ anow = 0 /\ apolls = <<>> /\ apc = "idle" /\ aresult = "None"
    /\ xinfo = <<>> /\ xgroup = "unasked" /\ xteam = "None" /\ xreqs = <<>> /\ xpc = "idle" /\ xresult = <<>> /\ xerror = "none"

ParseChannelUrl ==
    /\ upc = "start"
    /\ IF parse_channel_url(purl)[3] = IndexError
       THEN upc' = "raised" /\ uresult' = uresult
       ELSE upc' = "returned" /\ uresult' = parse_channel_url(purl)
    /\ UNCHANGED <<ulink, purl>>
    /\ UNCHANGED <<pagVars, parseVars, genVars, expVars, ttsVars, pipeVars, repVars, clientVars, authVars, extractVars>>

UrlNext == ParseChannelUrl

UrlSpec == UrlInit /\ [][UrlNext]_vars

(***************************************************************************)
(* Claims about parse_channel_url                                          *)
(***************************************************************************)
\* the value a query pair gives to its name ("" for `name=` and `name`)
PairValue(pair) == SubSeq(pair, 3, Len(pair))

\* the pairs of the link that give `name` a non-empty value
Given(name) == SelectSeq(ulink[2], LAMBDA pair : pair[1] = name /\ PairValue(pair) # <<>>)

\* the path segments after the first segment "channel"
RECURSIVE AfterMarker(_)
AfterMarker(segs) ==
    IF segs = <<>> THEN <<>>
    ELSE IF Head(segs) = <<"channel">> THEN Tail(segs)
    ELSE AfterMarker(Tail(segs))

\* C20 (as stated): parse_channel_url never raises and returns the three
\* fields, each Null precisely when the link holds no identifier for it: no
\* non-empty value of its query parameter, no non-empty path segment after the
\* segment "channel".
C20_NullIffAbsent ==
    upc # "start" =>
        /\ upc = "returned"
        /\ Len(uresult) = 3
        /\ uresult[1] = Null <=> Given("groupId") = <<>>
        /\ uresult[2] = Null <=> Given("tenantId") = <<>>
        /\ uresult[3] = Null <=>
              (AfterMarker(ulink[1]) = <<>> \/ AfterMarker(ulink[1])[1] = <<>>)

\* C20 (amended): parse_channel_url never raises and returns the three fields,
\* each computed from its own part of the link: groupId and tenantId are the
\* first non-empty value of their query parameter, Null when there is none;
\* channelId is the unquoted path segment after the first segment "channel",
\* Null only when no segment follows, the empty string when the segment that
\* follows is empty.
C20_FieldsFromOwnPart ==
    upc # "start" =>
        /\ upc = "returned"
        /\ Len(uresult) = 3
        /\ uresult[1] = (IF Given("groupId") = <<>> THEN Null
                         ELSE PairValue(Given("groupId")[1]))
        /\ uresult[2] = (IF Given("tenantId") = <<>> THEN Null
                         ELSE PairValue(Given("tenantId")[1]))
        /\ uresult[3] = (IF AfterMarker(ulink[1]) = <<>> THEN Null
                         ELSE IF AfterMarker(ulink[1])[1] = <<"19%3Aa">> THEN <<"19:a">>
                         ELSE AfterMarker(ulink[1])[1])

\* a link without the tenantId query parameter
C20_Witness ==
    /\ upc = "returned"
    /\ ulink = << << <<"l">>, <<"channel">>, <<"19%3Aa">> >>, << <<"groupId", "=", "g1">> >>, FALSE >>
    /\ uresult = << <<"g1">>, Null, <<"19:a">> >>

\* a path segment with its percent-escapes decoded
PercentDecoded(seg) == IF seg = <<"19%3Aa">> THEN <<"19:a">> ELSE seg

\* C21: channelId is the percent-decoded path segment right after the first
\* path segment "channel", Null when there is no such segment or nothing
\* follows it, and the same when the link's query string is replaced by none
\* or by any single pair.
C21_ChannelIdFromPath ==
    upc # "start" =>
        /\ upc = "returned"
        /\ uresult[3] = (IF AfterMarker(ulink[1]) = <<>> THEN Null
                         ELSE PercentDecoded(AfterMarker(ulink[1])[1]))
        /\ \A q \in {<<>>} \cup {<<pair>> : pair \in QueryPairs} :
              parse_channel_url(UrlText(<<ulink[1], q, ulink[3]>>))[3] = uresult[3]

C21_Witness ==
    /\ upc = "returned"
    /\ ulink[1] = << <<"channel">>, <<"19%3Aa">>, <<"channel">> >>
    /\ ulink[2] = << <<"x", "=", "channel">> >>
    /\ uresult[3] = <<"19:a">>

(***************************************************************************)
(* text_to_speech_elevenlabs                                               *)
(***************************************************************************)
\* the status codes a response may carry
StatusCodes == {200, 201, 204, 206, 301, 400, 401, 429, 500}

\* requests.post returns a response or raises a RequestException
PostOutcomes == {<<"response", st>> : st \in StatusCodes} \cup {<<"neterr", 0>>}

\* response.content
Bodies == {<<>>, <<"a">>, <<"b", "c">>}

\* the bytes the SDK fallback produces when it works
SdkBytes == <<"sdk">>

\* `if response.status_code != 200:`
IsErrorStatus(st) == st # 200

TtsInit ==
    /\ tkey \in BOOLEAN
    /\ tresp \in PostOutcomes
    /\ tbody \in Bodies
    /\ tsdk \in {"none", "bytes", "raise"}
    /\ tpc = "start"
    /\ tres = <<>>
    /\ terr = "none"
    \* the other components are idle
    /\ variant = "channel" /\ url = InitialUrl /\ params = FALSE
    /\ all_messages = <<>> /\ reqs = <<>> /\ resps = <<>> /\ failed = FALSE
    /\ ppc = "idle" /\ presult = <<>>
    /\ script = <<>> /\ segments = <<>> /\ rk = 0 /\ reseg = <<>> /\ spc = "idle"
    /\ gsegments = <<>> /\ use_elevenlabs = TRUE /\ has_key = TRUE /\ gi = 0
    /\ audio_segments = <<>> /\ failed_segments = <<>>
    /\ calls = <<>> /\ outcomes = <<>> /\ gpc = "idle" /\ gresult = <<>>
    /\ gerror = "none"
    /\ eclips = <<>> /\ writable = TRUE /\ ei = 0 /\ combined = <<>>
    /\ efile = <<"absent", FALSE, <<>>>> /\ efail_at = 0 /\ ereported = -1
    /\ epc = "idle" /\ eresult = "None" /\ eerror = "none"
    /\ ulink = <<>> /\ purl = <<>> /\ uresult = <<>> /\ upc = "idle"
    /\ wcaller = "create" /\ wwiki = "text" /\ warticle = "unfetched" /\ wgroq = TRUE /\ wllm = <<>> /\ wvoices = TRUE /\ wscript = <<>> /\ wllm_calls = <<>> /\ wsegments = <<>> /\ wpc = "idle" /\ wresult = "None" /\ werror = "none"
    /\ greport = <<>>
    /\ groq_client = <<>> /\ openai_client = <<>> /\ groq_key = "None" /\ openai_key = "None" /\ chist = <<>>
    /\ ainterval = 1 /\ aexpires = 1 /\ anow = 0 /\ apolls = <<>> /\ apc = "idle" /\ aresult = "None"
    /\ xinfo = <<>> /\ xgroup = "unasked" /\ xteam = "None" /\ xreqs = <<>> /\ xpc = "idle" /\ xresult = <<>> /\ xerror = "none"
\* if not api_key: raise ValueError(...)
TtsNoKey ==
    /\ tpc = "start"
    /\ ~tkey
    /\ tpc' = "raised"
    /\ terr' = "ValueError"
    /\ UNCHANGED <<tkey, tresp, tbody, tsdk, tres>>
    /\ UNCHANGED <<pagVars, parseVars, genVars, expVars, urlVars, pipeVars, repVars, clientVars, authVars, extractVars>>

\* response = requests.post(url, json=data, headers=headers)
TtsPost ==
    /\ tpc = "start"
    /\ tkey
    /\ tpc' = "posted"
    /\ UNCHANGED <<tkey, tresp, tbody, tsdk, tres, terr>>
    /\ UNCHANGED <<pagVars, parseVars, genVars, expVars, urlVars, pipeVars, repVars, clientVars, authVars, extractVars>>

\* the status check, `return response.content`, and the two except clauses up
\* to the SDK fallback
TtsHandle ==
    /\ tpc = "posted"
    /\ IF tresp[1] = "neterr"
       THEN tpc' = "raised" /\ terr' = "network" /\ tres' = tres
       ELSE IF IsErrorStatus(tresp[2])
            THEN tpc' = "fallback" /\ terr' = "api_error" /\ tres' = tres
            ELSE tpc' = "returned" /\ tres' = tbody /\ terr' = terr
    /\ UNCHANGED <<tkey, tresp, tbody, tsdk>>
    /\ UNCHANGED <<pagVars, parseVars, genVars, expVars, urlVars, pipeVars, repVars, clientVars, authVars, extractVars>>

\* `if ELEVENLABS_AVAILABLE:` ... and the final raise
TtsSdkFallback ==
    /\ tpc = "fallback"
    /\ IF tsdk = "bytes"
       THEN tpc' = "returned" /\ tres' = SdkBytes
       ELSE tpc' = "raised" /\ tres' = tres
    /\ UNCHANGED <<tkey, tresp, tbody, tsdk, terr>>
    /\ UNCHANGED <<pagVars, parseVars, genVars, expVars, urlVars, pipeVars, repVars, clientVars, authVars, extractVars>>

TtsNext ==
    \/ TtsNoKey
    \/ TtsPost
    \/ TtsHandle
    \/ TtsSdkFallback

TtsSpec == TtsInit /\ [][TtsNext]_vars

(***************************************************************************)
(* Claims about text_to_speech_elevenlabs                                  *)
(***************************************************************************)
TtsDone == tpc \in {"returned", "raised"}

Is2xx(st) == st >= 200 /\ st <= 299

\* C22: every 2xx response is a success whose body is returned as the clip and
\* no error is reported for it; every other response is reported as an error.
C22_Every2xxSucceeds ==
    (TtsDone /\ tkey /\ tresp[1] = "response") =>
        IF Is2xx(tresp[2])
        THEN tpc = "returned" /\ tres = tbody /\ terr = "none"
        ELSE terr # "none"

(***************************************************************************)
(* create_synthetic_radio_host and the generate flow of app.main           *)
(*                                                                         *)
(* The pipelines call generate_audio_for_segments and                      *)
(* combine_and_export_audio: their actions above run on the arguments the  *)
(* pipeline hands over.                                                    *)
(***************************************************************************)
LlmError == <<"error">>

\* what the LLM may answer: "", text without labels, one segment, a segment
\* followed by one that is only markup, two segments
PipeScripts ==
    {<<>>, <<"x">>, <<TokA, SP, "x">>,
     <<TokA, SP, "x", NL, TokB, SP, LaughsTok>>,
     <<TokA, SP, "x", NL, TokB, SP, "x">>}

\* fetch_wikipedia_article: the page text, the not-found message, or None
FetchResult(w) ==
    CASE w = "text" -> "text"
      [] w = "missing" -> "notfound"
      [] w = "error" -> "None"

\* `if not article_text:`
Falsy(a) == a \in {"None", "empty"}

\* `if not script:`
NoScript(s) == s = Null \/ s = <<>>

\* `if not segments or len(segments) == 0:` of app.main
MainChecksSegmentsNever(segs) == FALSE
MainChecksSegments(segs) == segs = <<>>

\* the bytes of the clip made for segment i
ClipBytes(i) == IF i = 1 THEN <<"a">> ELSE <<"b", "c">>

PipeInit ==
    /\ wcaller \in {"create", "main"}
    /\ wwiki \in (IF wcaller = "create" THEN {"text", "missing", "error"} ELSE {"text"})
    /\ warticle \in (IF wcaller = "create" THEN {"unfetched"} ELSE {"text", "empty"})
    /\ wgroq \in BOOLEAN
    /\ wllm \in PipeScripts \cup {LlmError}
    /\ wvoices \in (IF wcaller = "create" THEN {TRUE} ELSE BOOLEAN)
    /\ wscript = <<>>
    /\ wllm_calls = <<>>
    /\ wsegments = <<>>
    /\ wpc = "start"
    /\ wresult = None
    /\ werror = "none"
    /\ use_elevenlabs \in BOOLEAN
    /\ has_key \in BOOLEAN
    /\ writable \in BOOLEAN
    /\ gsegments = <<>> /\ gi = 0
    /\ audio_segments = <<>> /\ failed_segments = <<>>
    /\ calls = <<>> /\ outcomes = <<>> /\ gpc = "idle" /\ gresult = <<>>
    /\ gerror = "none"
    /\ eclips = <<>> /\ ei = 0 /\ combined = <<>>
    /\ efile = <<"absent", FALSE, <<>>>> /\ efail_at = 0 /\ ereported = -1
    /\ epc = "idle" /\ eresult = None /\ eerror = "none"
    \* the other components are idle
    /\ variant = "channel" /\ url = InitialUrl /\ params = FALSE
    /\ all_messages = <<>> /\ reqs = <<>> /\ resps = <<>> /\ failed = FALSE
    /\ ppc = "idle" /\ presult = <<>>
    /\ script = <<>> /\ segments = <<>> /\ rk = 0 /\ reseg = <<>> /\ spc = "idle"
    /\ ulink = <<>> /\ purl = <<>> /\ uresult = <<>> /\ upc = "idle"
    /\ tkey = TRUE /\ tresp = <<"response", 200>> /\ tbody = <<>> /\ tsdk = "none" /\ tpc = "idle" /\ tres = <<>> /\ terr = "none"
    /\ greport = <<>>
    /\ groq_client = <<>> /\ openai_client = <<>> /\ groq_key = "None" /\ openai_key = "None" /\ chist = <<>>
    /\ ainterval = 1 /\ aexpires = 1 /\ anow = 0 /\ apolls = <<>> /\ apc = "idle" /\ aresult = "None"
    /\ xinfo = <<>> /\ xgroup = "unasked" /\ xteam = "None" /\ xreqs = <<>> /\ xpc = "idle" /\ xresult = <<>> /\ xerror = "none"

\* article_text = fetch_wikipedia_article(title); if not article_text: return None
FetchArticle ==
    /\ wpc = "start"
    /\ wcaller = "create"
    /\ warticle' = FetchResult(wwiki)
    /\ wpc' = IF Falsy(FetchResult(wwiki)) THEN "returned" ELSE "fetched"
    /\ UNCHANGED <<wcaller, wwiki, wgroq, wllm, wvoices, wscript, wllm_calls, wsegments,
                   wresult, werror>>
    /\ UNCHANGED <<pagVars, parseVars, genVars, expVars, urlVars, ttsVars, repVars, clientVars, authVars, extractVars>>

\* app.main: the article and API key checks before the try block
MainChecks ==
    /\ wpc = "start"
    /\ wcaller = "main"
    /\ wpc' = IF Falsy(warticle) \/ ~wgroq \/ (use_elevenlabs /\ ~has_key)
              THEN "returned" ELSE "fetched"
    /\ UNCHANGED <<wcaller, wwiki, warticle, wgroq, wllm, wvoices, wscript, wllm_calls,
                   wsegments, wresult, werror>>
    /\ UNCHANGED <<pagVars, parseVars, genVars, expVars, urlVars, ttsVars, repVars, clientVars, authVars, extractVars>>

\* script = generate_conversation_script(article_text); if not script: return
GenerateScript ==
    /\ wpc = "fetched"
    /\ IF ~wgroq
       THEN /\ wpc' = "raised"
            /\ werror' = "ValueError"
            /\ UNCHANGED <<wscript, wllm_calls>>
       ELSE /\ wllm_calls' = Append(wllm_calls, warticle)
            /\ wscript' = (IF wllm = LlmError THEN Null ELSE wllm)
            /\ wpc' = IF NoScript(IF wllm = LlmError THEN Null ELSE wllm)
                      THEN "returned" ELSE "scripted"
            /\ werror' = werror
    /\ UNCHANGED <<wcaller, wwiki, warticle, wgroq, wllm, wvoices, wsegments, wresult>>
    /\ UNCHANGED <<pagVars, parseVars, genVars, expVars, urlVars, ttsVars, repVars, clientVars, authVars, extractVars>>

\* segments = parse_script(script); app.main then checks segments and voice ids
ParseSegments ==
    /\ wpc = "scripted"
    /\ wsegments' = parse_script(wscript)
    /\ wpc' = IF wcaller = "main" /\ (MainChecksSegments(parse_script(wscript)) \/ ~wvoices)
              THEN "returned" ELSE "parsed"
    /\ UNCHANGED <<wcaller, wwiki, warticle, wgroq, wllm, wvoices, wscript, wllm_calls,
                   wresult, werror>>
    /\ UNCHANGED <<pagVars, parseVars, genVars, expVars, urlVars, ttsVars, repVars, clientVars, authVars, extractVars>>

\* audio_segments = generate_audio_for_segments(segments, ...): the call
CallGenerate ==
    /\ wpc = "parsed"
    /\ wpc' = "synth"
    /\ gsegments' = wsegments
    /\ gi' = 0
    /\ audio_segments' = <<>>
    /\ failed_segments' = <<>>
    /\ calls' = <<>>
    /\ outcomes' = <<>>
    /\ gpc' = "loop"
    /\ gresult' = <<>>
    /\ gerror' = "none"
    /\ UNCHANGED <<use_elevenlabs, has_key>>
    /\ UNCHANGED <<wcaller, wwiki, warticle, wgroq, wllm, wvoices, wscript, wllm_calls,
                   wsegments, wresult, werror>>
    /\ UNCHANGED <<pagVars, parseVars, expVars, urlVars, ttsVars, repVars, clientVars, authVars, extractVars>>

\* what follows the call: its exception, `if not audio_segments`, and the call
\* of combine_and_export_audio (app.main first creates the temporary file)
AfterGenerate ==
    /\ wpc = "synth"
    /\ gpc \in {"returned", "raised"}
    /\ IF gpc = "raised"
       THEN /\ wpc' = (IF wcaller = "create" THEN "raised" ELSE "returned")
            /\ werror' = (IF wcaller = "create" THEN gerror ELSE werror)
            /\ UNCHANGED expVars
       ELSE IF gresult = <<>>
            THEN wpc' = "returned" /\ werror' = werror /\ UNCHANGED expVars
            ELSE /\ wpc' = "export"
                 /\ werror' = werror
                 /\ eclips' = [k \in 1..Len(gresult) |-> ClipBytes(gresult[k])]
                 /\ epc' = "start"
                 /\ efile' = (IF wcaller = "main" THEN EmptyFile ELSE efile)
                 /\ UNCHANGED <<writable, ei, combined, efail_at, ereported, eresult, eerror>>
    /\ UNCHANGED <<wcaller, wwiki, warticle, wgroq, wllm, wvoices, wscript, wllm_calls,
                   wsegments, wresult>>
    /\ UNCHANGED <<pagVars, parseVars, genVars, urlVars, ttsVars, repVars, clientVars, authVars, extractVars>>

\* what follows combine_and_export_audio: return output_path; app.main plays
\* the file and removes it
AfterExport ==
    /\ wpc = "export"
    /\ epc \in {"returned", "raised"}
    /\ IF epc = "raised"
       THEN /\ wpc' = (IF wcaller = "create" THEN "raised" ELSE "returned")
            /\ werror' = (IF wcaller = "create" THEN eerror ELSE werror)
            /\ UNCHANGED <<wresult, efile>>
       ELSE /\ wpc' = "returned"
            /\ wresult' = eresult
            /\ werror' = werror
            /\ efile' = (IF wcaller = "main" /\ eresult # None THEN AbsentFile ELSE efile)
    /\ UNCHANGED <<eclips, writable, ei, combined, efail_at, ereported, epc, eresult, eerror>>
    /\ UNCHANGED <<wcaller, wwiki, warticle, wgroq, wllm, wvoices, wscript, wllm_calls,
                   wsegments>>
    /\ UNCHANGED <<pagVars, parseVars, genVars, urlVars, ttsVars, repVars, clientVars, authVars, extractVars>>

PipeNext ==
    \/ FetchArticle
    \/ MainChecks
    \/ GenerateScript
    \/ ParseSegments
    \/ CallGenerate
    \/ SkipSegment
    \/ \E o \in TtsOutcomes : SynthesizeSegment(o)
    \/ FinishSegments
    \/ AfterGenerate
    \/ BeginCombine
    \/ \E o \in {"ok", "raise"} : AddClip(o)
    \/ \E o \in {"ok", "raise"} : \E left \in PriorFiles \cup {PartialFile} : ExportTrack(o, left)
    \/ Fallback
    \/ AfterExport

PipeSpec == PipeInit /\ [][PipeNext]_vars

(***************************************************************************)
(* Claims about the pipelines                                              *)
(***************************************************************************)
\* parse_script has been called on a script and gave no segment
ParsedNothing ==
    /\ ~NoScript(wscript)
    /\ wpc # "scripted"
    /\ wsegments = <<>>

\* C23: when the segmenter returns an empty sequence both pipelines abort: no
\* synthesis call is made, combine_and_export_audio is never invoked and no
\* output file is produced.  app.main returns before calling
\* generate_audio_for_segments; create_synthetic_radio_host ends with the
\* all-failed exception of generate_audio_for_segments.
C23_EmptySegmentsAbort ==
    ParsedNothing =>
        /\ calls = <<>>
        /\ epc = "idle"
        /\ efile = AbsentFile
        /\ wresult = None
        /\ wcaller = "main" => (wpc = "returned" /\ gpc = "idle")
        /\ (wcaller = "create" /\ wpc \notin {"parsed", "synth"}) =>
              (wpc = "raised" /\ werror = "all_failed")

C23_Witness ==
    /\ ParsedNothing
    /\ wcaller = "create"
    /\ wscript = <<"x">>
    /\ wpc = "raised"
    /\ gpc = "raised"

\* C27: if the Wikipedia article cannot be fetched or does not exist,
\* create_synthetic_radio_host returns None having made no LLM call, no
\* synthesis call and written no output file.
C27_NoArticleNoWork ==
    (wcaller = "create" /\ wwiki \in {"missing", "error"} /\ wpc # "start") =>
        /\ wpc = "returned"
        /\ wresult = None
        /\ wllm_calls = <<>>
        /\ calls = <<>>
        /\ efile = AbsentFile

(***************************************************************************)
(* More claims about generate_audio_for_segments                           *)
(***************************************************************************)
\* how many of the outcomes are in the set S
RECURSIVE CountIn(_, _)
CountIn(os, S) ==
    IF os = <<>> THEN 0
    ELSE (IF Head(os) \in S THEN 1 ELSE 0) + CountIn(Tail(os), S)

\* C24 (as stated): whenever fewer clips are returned than segments were
\* given, a report with the count of succeeded and the count of not-succeeded
\* items has been printed, and the two counts sum to the number of segments.
C24_CountsCoverAllSegments ==
    (gpc = "returned" /\ Len(gresult) < Len(gsegments)) =>
        /\ greport # <<>>
        /\ greport[2] = Len(gresult)
        /\ greport[1] + greport[2] = Len(gsegments)

\* C24 (amended): on a normal return the summary is printed exactly when some
\* synthesis call failed; its counts are the failed calls and the clips, and
\* they sum to the number of calls made, the segments skipped as empty being
\* in neither count.
C24_FailuresReported ==
    gpc = "returned" =>
        /\ greport # <<>> <=> CountIn(outcomes, {"empty", "raise"}) > 0
        /\ greport # <<>> =>
              /\ greport = <<CountIn(outcomes, {"empty", "raise"}), CountIn(outcomes, {"bytes"})>>
              /\ greport[2] = Len(gresult)
              /\ greport[1] + greport[2] = Len(calls)
              /\ greport[1] + greport[2] = Len(gsegments) - CountIn(outcomes, {"skipped"})

C24_Witness ==
    /\ gpc = "returned"
    /\ outcomes = <<"bytes", "skipped", "raise">>
    /\ greport = <<1, 1>>

\* the voice bound to a speaker
BoundVoice(speaker, elevenlabs) ==
    CASE speaker = PersonA /\ elevenlabs -> VoiceAId
      [] speaker = PersonB /\ elevenlabs -> VoiceBId
      [] speaker = PersonA /\ ~elevenlabs -> OpenaiVoiceA
      [] speaker = PersonB /\ ~elevenlabs -> OpenaiVoiceB

\* C25: every synthesis call is made with the provider chosen by
\* use_elevenlabs and with the voice bound to the speaker of its segment:
\* voice A for 'Person A', voice B for 'Person B'.
C25_VoiceOfSpeaker ==
    \A k \in 1..Len(calls) :
        /\ gsegments[calls[k][1]][1] \in {PersonA, PersonB}
        /\ calls[k][2] = use_elevenlabs
        /\ calls[k][3] = BoundVoice(gsegments[calls[k][1]][1], use_elevenlabs)

C25_Witness ==
    /\ ~use_elevenlabs
    /\ Len(calls) = 2
    /\ gsegments[calls[1][1]][1] = PersonB
    /\ calls[1][3] = OpenaiVoiceB
    /\ gsegments[calls[2][1]][1] = PersonA
    /\ calls[2][3] = OpenaiVoiceA

(***************************************************************************)
(* get_groq_client / get_openai_client                                     *)
(*                                                                         *)
(* A client is <<which, key it was built with, number of the call that     *)
(* built it>>; NoClient is None.                                           *)
(***************************************************************************)
MaxCalls == 3

NoClient == <<>>
ApiKeys == {"None", "k1", "k2"}

\* `if groq_client is None:` / `if openai_client is None:`
IsUnsetAlways(client) == TRUE
IsUnset(client) == client = NoClient

\* `if api_key:`
KeySet(key) == key # "None"

\* the value of the global after a getter call: o is what the constructor does
Getter(which, client, key, o, n) ==
    IF IsUnset(client) /\ KeySet(key)
    THEN (IF o = "ok" THEN <<which, key, n>> ELSE client)
    ELSE client

ClientInit ==
    /\ groq_client = NoClient
    /\ openai_client = NoClient
    /\ groq_key \in ApiKeys
    /\ openai_key \in ApiKeys
    /\ chist = <<>>
    \* the other components are idle
    /\ variant = "channel" /\ url = InitialUrl /\ params = FALSE
    /\ all_messages = <<>> /\ reqs = <<>> /\ resps = <<>> /\ failed = FALSE
    /\ ppc = "idle" /\ presult = <<>>
    /\ script = <<>> /\ segments = <<>> /\ rk = 0 /\ reseg = <<>> /\ spc = "idle"
    /\ gsegments = <<>> /\ use_elevenlabs = TRUE /\ has_key = TRUE /\ gi = 0
    /\ audio_segments = <<>> /\ failed_segments = <<>>
    /\ calls = <<>> /\ outcomes = <<>> /\ gpc = "idle" /\ gresult = <<>>
    /\ gerror = "none"
    /\ eclips = <<>> /\ writable = TRUE /\ ei = 0 /\ combined = <<>>
    /\ efile = <<"absent", FALSE, <<>>>> /\ efail_at = 0 /\ ereported = -1
    /\ epc = "idle" /\ eresult = "None" /\ eerror = "none"
    /\ ulink = <<>> /\ purl = <<>> /\ uresult = <<>> /\ upc = "idle"
    /\ tkey = TRUE /\ tresp = <<"response", 200>> /\ tbody = <<>> /\ tsdk = "none" /\ tpc = "idle" /\ tres = <<>> /\ terr = "none"
    /\ wcaller = "create" /\ wwiki = "text" /\ warticle = "unfetched" /\ wgroq = TRUE /\ wllm = <<>> /\ wvoices = TRUE /\ wscript = <<>> /\ wllm_calls = <<>> /\ wsegments = <<>> /\ wpc = "idle" /\ wresult = "None" /\ werror = "none"
    /\ greport = <<>>
    /\ ainterval = 1 /\ aexpires = 1 /\ anow = 0 /\ apolls = <<>> /\ apc = "idle" /\ aresult = "None"
    /\ xinfo = <<>> /\ xgroup = "unasked" /\ xteam = "None" /\ xreqs = <<>> /\ xpc = "idle" /\ xresult = <<>> /\ xerror = "none"
\* the .env file or the environment is edited between two calls
SetKey(which, key) ==
    /\ Len(chist) < MaxCalls
    /\ IF which = "groq"
       THEN groq_key # key /\ groq_key' = key /\ openai_key' = openai_key
       ELSE openai_key # key /\ openai_key' = key /\ groq_key' = groq_key
    /\ UNCHANGED <<groq_client, openai_client, chist>>
    /\ UNCHANGED <<pagVars, parseVars, genVars, expVars, urlVars, ttsVars, pipeVars, repVars, authVars, extractVars>>

GetGroqClient(o) ==
    /\ Len(chist) < MaxCalls
    /\ groq_client' = Getter("groq", groq_client, groq_key, o, Len(chist) + 1)
    /\ chist' = Append(chist, <<"groq", groq_key, o,
                                Getter("groq", groq_client, groq_key, o, Len(chist) + 1)>>)
    /\ UNCHANGED <<openai_client, groq_key, openai_key>>
    /\ UNCHANGED <<pagVars, parseVars, genVars, expVars, urlVars, ttsVars, pipeVars, repVars, authVars, extractVars>>

GetOpenaiClient(o) ==
    /\ Len(chist) < MaxCalls
    /\ openai_client' = Getter("openai", openai_client, openai_key, o, Len(chist) + 1)
    /\ chist' = Append(chist, <<"openai", openai_key, o,
                                Getter("openai", openai_client, openai_key, o, Len(chist) + 1)>>)
    /\ UNCHANGED <<groq_client, groq_key, openai_key>>
    /\ UNCHANGED <<pagVars, parseVars, genVars, expVars, urlVars, ttsVars, pipeVars, repVars, authVars, extractVars>>

ClientNext ==
    \/ \E which \in {"groq", "openai"}, key \in ApiKeys : SetKey(which, key)
    \/ \E o \in {"ok", "raise"} : GetGroqClient(o)
    \/ \E o \in {"ok", "raise"} : GetOpenaiClient(o)

ClientSpec == ClientInit /\ [][ClientNext]_vars

(***************************************************************************)
(* Claims about the client getters                                         *)
(***************************************************************************)
\* the calls of `which` among the first k that found a key and whose
\* constructor succeeded
Built(which, k) ==
    {j \in 1..k : chist[j][1] = which /\ chist[j][2] # "None" /\ chist[j][3] = "ok"}

\* the first of them
FirstBuilt(which, k) == CHOOSE j \in Built(which, k) : \A i \in Built(which, k) : j <= i

\* C26: over any sequence of getter calls a client is constructed at most
\* once: a getter returns None until its first call that finds a key and whose
\* constructor succeeds, and from then on every call returns the client built
\* by that call, whatever the key has become; the globals hold what the last
\* call returned.
C26_Singletons ==
    /\ \A k \in 1..Len(chist) :
          chist[k][4] = (IF Built(chist[k][1], k) = {} THEN NoClient
                         ELSE LET f == FirstBuilt(chist[k][1], k)
                              IN  <<chist[k][1], chist[f][2], f>>)
    /\ groq_client = (IF Built("groq", Len(chist)) = {} THEN NoClient
                      ELSE <<"groq", chist[FirstBuilt("groq", Len(chist))][2],
                             FirstBuilt("groq", Len(chist))>>)
    /\ openai_client = (IF Built("openai", Len(chist)) = {} THEN NoClient
                        ELSE <<"openai", chist[FirstBuilt("openai", Len(chist))][2],
                               FirstBuilt("openai", Len(chist))>>)

\* no key, then a key, then another key: None, the client, the same client
C26_Witness ==
    /\ Len(chist) = 3
    /\ chist[1] = <<"groq", "None", "ok", NoClient>>
    /\ chist[2] = <<"groq", "k1", "ok", <<"groq", "k1", 2>>>>
    /\ chist[3] = <<"groq", "k2", "ok", <<"groq", "k1", 2>>>>

(***************************************************************************)
(* get_token.authenticate: the device-code polling loop                    *)
(*                                                                         *)
(* Time is in whole seconds since start_time.                              *)
(***************************************************************************)
MaxPolls == 5

\* the longest a token request takes beyond the sleep
MaxLatency == 1

Intervals == {1, 2}
Expiries == {3, 4, 5}

\* token_response: it holds 'access_token', or an 'error'
PollResponses == {"access_token", "authorization_pending", "slow_down", "expired_token"}

AccessToken == "token"

\* `while time.time() - start_time < expires_in:`
WithinExpiryAlways(elapsed, expires) == TRUE
WithinExpiry(elapsed, expires) == elapsed < expires

AuthInit ==
    /\ ainterval \in Intervals
    /\ aexpires \in Expiries
    /\ anow = 0
    /\ apolls = <<>>
    /\ apc = "loop"
    /\ aresult = None
    \* the other components are idle
    /\ variant = "channel" /\ url = InitialUrl /\ params = FALSE
    /\ all_messages = <<>> /\ reqs = <<>> /\ resps = <<>> /\ failed = FALSE
    /\ ppc = "idle" /\ presult = <<>>
    /\ script = <<>> /\ segments = <<>> /\ rk = 0 /\ reseg = <<>> /\ spc = "idle"
    /\ gsegments = <<>> /\ use_elevenlabs = TRUE /\ has_key = TRUE /\ gi = 0
    /\ audio_segments = <<>> /\ failed_segments = <<>>
    /\ calls = <<>> /\ outcomes = <<>> /\ gpc = "idle" /\ gresult = <<>>
    /\ gerror = "none"
    /\ eclips = <<>> /\ writable = TRUE /\ ei = 0 /\ combined = <<>>
    /\ efile = <<"absent", FALSE, <<>>>> /\ efail_at = 0 /\ ereported = -1
    /\ epc = "idle" /\ eresult = "None" /\ eerror = "none"
    /\ ulink = <<>> /\ purl = <<>> /\ uresult = <<>> /\ upc = "idle"
    /\ tkey = TRUE /\ tresp = <<"response", 200>> /\ tbody = <<>> /\ tsdk = "none" /\ tpc = "idle" /\ tres = <<>> /\ terr = "none"
    /\ wcaller = "create" /\ wwiki = "text" /\ warticle = "unfetched" /\ wgroq = TRUE /\ wllm = <<>> /\ wvoices = TRUE /\ wscript = <<>> /\ wllm_calls = <<>> /\ wsegments = <<>> /\ wpc = "idle" /\ wresult = "None" /\ werror = "none"
    /\ greport = <<>>
    /\ groq_client = <<>> /\ openai_client = <<>> /\ groq_key = "None" /\ openai_key = "None" /\ chist = <<>>
    /\ xinfo = <<>> /\ xgroup = "unasked" /\ xteam = "None" /\ xreqs = <<>> /\ xpc = "idle" /\ xresult = <<>> /\ xerror = "none"
\* one iteration: the loop test, time.sleep(interval), the token request and
\* the branch on its response
Poll(resp, latency) ==
    /\ apc = "loop"
    /\ Len(apolls) < MaxPolls
    /\ WithinExpiry(anow, aexpires)
    /\ anow' = anow + ainterval + latency
    /\ apolls' = Append(apolls, <<anow, anow + ainterval + latency, resp>>)
    /\ IF resp = "access_token"
       THEN apc' = "returned" /\ aresult' = AccessToken
       ELSE IF resp = "authorization_pending"
            THEN apc' = apc /\ aresult' = aresult
            ELSE apc' = "returned" /\ aresult' = None
    /\ UNCHANGED <<ainterval, aexpires>>
    /\ UNCHANGED <<pagVars, parseVars, genVars, expVars, urlVars, ttsVars, pipeVars, repVars, clientVars, extractVars>>

\* the loop test fails: print("Authentication timed out"); return None
TimedOut ==
    /\ apc = "loop"
    /\ ~WithinExpiry(anow, aexpires)
    /\ apc' = "returned"
    /\ aresult' = None
    /\ UNCHANGED <<ainterval, aexpires, anow, apolls>>
    /\ UNCHANGED <<pagVars, parseVars, genVars, expVars, urlVars, ttsVars, pipeVars, repVars, clientVars, extractVars>>

AuthNext ==
    \/ \E resp \in PollResponses, latency \in 0..MaxLatency : Poll(resp, latency)
    \/ TimedOut

AuthSpec == AuthInit /\ [][AuthNext]_vars

(***************************************************************************)
(* Claims about authenticate                                               *)
(***************************************************************************)
\* what holds of the polls and of the result whenever the requests are made
PollingDiscipline ==
    \* a token is returned only if the last response held one
    /\ aresult # None =>
          (apc = "returned" /\ apolls # <<>> /\ Last(apolls)[3] = "access_token"
           /\ aresult = AccessToken)
    \* another poll only after 'authorization_pending'
    /\ \A k \in 1..(Len(apolls) - 1) : apolls[k][3] = "authorization_pending"
    \* any other response ends the polling at once, with None unless it is a token
    /\ (apolls # <<>> /\ Last(apolls)[3] # "authorization_pending") =>
          (apc = "returned"
           /\ aresult = (IF Last(apolls)[3] = "access_token" THEN AccessToken ELSE None))
    \* after a pending response the function returns only on the timeout
    /\ (apc = "returned" /\ apolls # <<>> /\ Last(apolls)[3] = "authorization_pending") =>
          (anow >= aexpires /\ aresult = None)

\* C28 (as stated): the polling discipline holds, and no poll is issued once
\* the expiry has passed: every token request is made at an elapsed time below
\* expires_in.
C28_NoPollAfterExpiry ==
    /\ PollingDiscipline
    /\ \A k \in 1..Len(apolls) : apolls[k][2] < aexpires

\* C28 (amended): the polling discipline holds, and the expiry is tested
\* before the sleep: every token request follows, by at least `interval`
\* seconds, a loop test that found the elapsed time below expires_in, so the
\* last request may be made after the expiry; no request follows a test that
\* found the expiry passed.
C28_ExpiryTestedBeforeSleep ==
    /\ PollingDiscipline
    /\ \A k \in 1..Len(apolls) :
          /\ apolls[k][1] < aexpires
          /\ apolls[k][2] >= apolls[k][1] + ainterval
          /\ apolls[k][1] = (IF k = 1 THEN 0 ELSE apolls[k - 1][2])

\* pending until the expiry, the last request made after it, then the timeout
C28_Witness ==
    /\ ainterval = 2
    /\ aexpires = 3
    /\ apolls = <<<<0, 2, "authorization_pending">>, <<2, 4, "authorization_pending">>>>
    /\ apc = "returned"
    /\ aresult = None

(***************************************************************************)
(* extract_messages_from_channel_url                                       *)
(*                                                                         *)
(* The link is parsed by parse_channel_url; the team is looked up with     *)
(* GET /groups/{groupId}; the messages are fetched by get_channel_messages.*)
(* xreqs records every HTTP request sent.                                  *)
(***************************************************************************)
\* the links handed to extract_messages_from_channel_url
ExtractLinks ==
    SeqsUpTo(PathSegs, MaxPath) \X ({<<>>} \cup {<<pair>> : pair \in QueryPairs}) \X {FALSE}

\* what GET /groups/{groupId} answers: a request error, a group that is not a
\* team, a group provisioned as a team
GroupResponses == {"error", "group", "team"}

\* data['id'] of the answer
TeamId == <<"team1">>

\* the lists get_channel_messages returns ([] when its first request fails)
ChannelMessages == {<<>>, <<"m1">>, <<"m1", "m2">>}

\* `not value` for None and for the empty string
MissingNever(value) == FALSE
Missing(value) == value = Null \/ value = <<>>

\* get_team_id_from_group's return value for an answer
TeamIdFrom(resp) == IF resp = "team" THEN TeamId ELSE Null

ExtractInit ==
    /\ ulink \in ExtractLinks
    /\ purl = UrlText(ulink)
    /\ uresult = <<>>
    /\ upc = "idle"
    /\ xinfo = <<>> /\ xgroup = "unasked" /\ xteam = None /\ xreqs = <<>>
    /\ xpc = "start" /\ xresult = <<>> /\ xerror = "none"
    \* the other components are idle
    /\ variant = "channel" /\ url = InitialUrl /\ params = FALSE
    /\ all_messages = <<>> /\ reqs = <<>> /\ resps = <<>> /\ failed = FALSE
    /\ ppc = "idle" /\ presult = <<>>
    /\ script = <<>> /\ segments = <<>> /\ rk = 0 /\ reseg = <<>> /\ spc = "idle"
    /\ gsegments = <<>> /\ use_elevenlabs = TRUE /\ has_key = TRUE /\ gi = 0
    /\ audio_segments = <<>> /\ failed_segments = <<>>
    /\ calls = <<>> /\ outcomes = <<>> /\ gpc = "idle" /\ gresult = <<>>
    /\ gerror = "none"
    /\ eclips = <<>> /\ writable = TRUE /\ ei = 0 /\ combined = <<>>
    /\ efile = <<"absent", FALSE, <<>>>> /\ efail_at = 0 /\ ereported = -1
    /\ epc = "idle" /\ eresult = "None" /\ eerror = "none"
    /\ tkey = TRUE /\ tresp = <<"response", 200>> /\ tbody = <<>> /\ tsdk = "none" /\ tpc = "idle" /\ tres = <<>> /\ terr = "none"
    /\ wcaller = "create" /\ wwiki = "text" /\ warticle = "unfetched" /\ wgroq = TRUE /\ wllm = <<>> /\ wvoices = TRUE /\ wscript = <<>> /\ wllm_calls = <<>> /\ wsegments = <<>> /\ wpc = "idle" /\ wresult = "None" /\ werror = "none"
    /\ greport = <<>>
    /\ groq_client = <<>> /\ openai_client = <<>> /\ groq_key = "None" /\ openai_key = "None" /\ chist = <<>>
    /\ ainterval = 1 /\ aexpires = 1 /\ anow = 0 /\ apolls = <<>> /\ apc = "idle" /\ aresult = "None"

\* url_info = self.parse_channel_url(channel_url); the groupId test
ParseLink ==
    /\ xpc = "start"
    /\ xinfo' = parse_channel_url(purl)
    /\ IF Missing(xinfo'[1])
       THEN xpc' = "raised" /\ xerror' = "ValueError"
       ELSE xpc' = "lookup" /\ xerror' = xerror
    /\ UNCHANGED <<xgroup, xteam, xreqs, xresult>>
    /\ UNCHANGED <<pagVars, parseVars, genVars, expVars, urlVars, ttsVars, pipeVars, repVars, clientVars, authVars>>

\* team_id = self.get_team_id_from_group(...); the team_id and channelId tests
LookupTeam(resp) ==
    /\ xpc = "lookup"
    /\ xreqs' = Append(xreqs, <<"groups", xinfo[1]>>)
    /\ xgroup' = resp
    /\ xteam' = TeamIdFrom(resp)
    /\ IF Missing(xteam') \/ Missing(xinfo[3])
       THEN xpc' = "raised" /\ xerror' = "ValueError"
       ELSE xpc' = "messages" /\ xerror' = xerror
    /\ UNCHANGED <<xinfo, xresult>>
    /\ UNCHANGED <<pagVars, parseVars, genVars, expVars, urlVars, ttsVars, pipeVars, repVars, clientVars, authVars>>

\* return self.get_channel_messages(team_id, url_info['channelId'])
GetChannelMessages(messages) ==
    /\ xpc = "messages"
    /\ xreqs' = Append(xreqs, <<"messages", xteam, Unquote(xinfo[3])>>)
    /\ xresult' = messages
    /\ xpc' = "returned"
    /\ UNCHANGED <<xinfo, xgroup, xteam, xerror>>
    /\ UNCHANGED <<pagVars, parseVars, genVars, expVars, urlVars, ttsVars, pipeVars, repVars, clientVars, authVars>>

ExtractNext ==
    \/ ParseLink
    \/ \E resp \in GroupResponses : LookupTeam(resp)
    \/ \E messages \in ChannelMessages : GetChannelMessages(messages)

ExtractSpec == ExtractInit /\ [][ExtractNext]_vars

(***************************************************************************)
(* Claims about extract_messages_from_channel_url                          *)
(***************************************************************************)
\* the link gives a groupId / a channelId
GroupIdPresent == Given("groupId") # <<>>
ChannelIdPresent == AfterMarker(ulink[1]) # <<>> /\ AfterMarker(ulink[1])[1] # <<>>

\* the channel-messages request has been sent
MessagesRequested == \E i \in 1..Len(xreqs) : xreqs[i][1] = "messages"

ExtractDone == xpc \in {"returned", "raised"}

\* C29: extract_messages_from_channel_url sends the channel-messages request
\* only when the link gives a groupId, the group lookup resolved a team and
\* the link gives a channelId; when one of the three is missing it raises
\* ValueError and returns no messages, and when the groupId is missing it
\* sends no HTTP request at all.
C29_RequestOnlyWhenAllPresent ==
    /\ MessagesRequested =>
           GroupIdPresent /\ xgroup = "team" /\ ChannelIdPresent
    /\ (ExtractDone /\ ~(GroupIdPresent /\ xgroup = "team" /\ ChannelIdPresent)) =>
           xpc = "raised" /\ xerror = "ValueError" /\ xresult = <<>> /\ ~MessagesRequested
    /\ (ExtractDone /\ GroupIdPresent /\ xgroup = "team" /\ ChannelIdPresent) =>
           xpc = "returned" /\ xerror = "none" /\ MessagesRequested
    /\ ~GroupIdPresent => xreqs = <<>>

\* a link with a groupId and no channelId: the team is looked up and resolved,
\* then ValueError is raised and the messages are never requested
C29_Witness ==
    /\ xpc = "raised"
    /\ GroupIdPresent /\ ~ChannelIdPresent
    /\ xgroup = "team"
    /\ xreqs = << <<"groups", <<"g1">>>> >>
    /\ xerror = "ValueError"

(***************************************************************************)
(* The accounting of generate_audio_for_segments                           *)
(***************************************************************************)
\* what became of segment j: its clip was collected, its index was recorded
\* as failed, it was skipped as empty
Collected(j) == \E n \in 1..Len(audio_segments) : audio_segments[n] = Clip(j)
RecordedFailed(j) == \E n \in 1..Len(failed_segments) : failed_segments[n] = j
SkippedEmpty(j) == j <= Len(outcomes) /\ outcomes[j] = "skipped"

\* exactly one of three
OneOf(a, b, c) == (a /\ ~b /\ ~c) \/ (~a /\ b /\ ~c) \/ (~a /\ ~b /\ c)

\* C30: after the first gi segments, clips collected + indices recorded as
\* failed + segments skipped as empty = gi; each of these segments is in
\* exactly one of the three groups and no later segment is in any; the failed
\* indices are 1-based positions in strictly increasing order; every clip of
\* the returned list is the non-empty bytes of a synthesis call.
C30_Accounting ==
    gpc # "idle" =>
        /\ Len(audio_segments) + Len(failed_segments)
             + Cardinality({j \in 1..gi : SkippedEmpty(j)}) = gi
        /\ \A j \in 1..gi : OneOf(Collected(j), RecordedFailed(j), SkippedEmpty(j))
        /\ \A j \in (gi + 1)..Len(gsegments) :
               ~Collected(j) /\ ~RecordedFailed(j) /\ ~SkippedEmpty(j)
        /\ \A n \in 1..Len(failed_segments) :
               /\ failed_segments[n] \in 1..gi
               /\ n > 1 => failed_segments[n - 1] < failed_segments[n]
        /\ gpc = "returned" =>
               \A n \in 1..Len(gresult) :
                   \E j \in 1..gi : gresult[n] = Clip(j) /\ outcomes[j] = "bytes"

\* four segments: a failure by an exception, a clip, a skipped segment and a
\* failure by an empty answer; the one clip is returned
C30_Witness ==
    /\ gpc = "returned"
    /\ outcomes = <<"raise", "bytes", "skipped", "empty">>
    /\ failed_segments = <<1, 4>>
    /\ gresult = <<Clip(2)>>

====
